---- MODULE Spec2Model ----
(***************************************************************************)
(* A model of the stock research server's core:                            *)
(*   - ProviderRouter._with_fallback_routed (providers/router.py), run by  *)
(*     several concurrent coroutines on one router;                        *)
(*   - the scoring engine (scoring/engine.py);                             *)
(*   - the signal generator (analysis/signal_engine.py);                   *)
(*   - the technical indicators (indicators/technical.py), computed in     *)
(*     exact rational arithmetic;                                          *)
(*   - the metrics computations (analysis/metrics.py);                     *)
(*   - the analysis pipeline _run_full_analysis (tools/stock_tools.py)     *)
(*     with the narrative engine (analysis/claude_engine.py);              *)
(*   - the tools built on them (tools/stock_tools.py) and the transport    *)
(*     resolution of main.py.                                              *)
(* Python values are tagged records; texts are sequences of pieces, the    *)
(* literal parts of an f-string and the values interpolated into it.       *)
(* Numbers of the scoring engine are hundredths held as integers, and a    *)
(* score before rounding is an exact fraction <<numerator, denominator>>.  *)
(***************************************************************************)
EXTENDS Integers, Sequences, FiniteSets, TLC

VARIABLES
    router,          \* the ProviderRouter dataclass: names of primary, secondary
    pc,              \* per routed operation: position of its coroutine
    method,          \* per routed operation: method_name
    primary_reason,  \* per coroutine frame: the local primary_reason
    outcome,         \* per routed operation: what each provider call did
    calls,           \* per routed operation: provider calls, in order
    result,          \* per routed operation: what the caller got
    metrics,         \* scoring: the MetricsTable under evaluation
    weights,         \* scoring: the ScoringWeights
    scorecard,       \* scoring: the Scorecard returned by composite_score
    spc,             \* scoring: position of the scoring request
    risk_profile,    \* signal: the risk_profile argument of generate_signal
    signal,          \* signal: the (signal, confidence) tuple it returned
    indicator_call,  \* indicators: the function called and its arguments
    indicator_result, \* indicators: what the call returned
    metric_call,     \* metrics: the function called and its arguments
    metric_result,   \* metrics: what the call returned or raised
    analysis_call,   \* analysis: the request and what the collaborators gave
    analysis_result, \* analysis: what _run_full_analysis returned or raised
    tool_call,       \* tools: the tool, its arguments and what upstream gave
    tool_result,     \* tools: what the tool returned or raised, and the
                     \* router calls it made
    environ,         \* start-up: os.environ, as far as main.py reads it
    settings,        \* start-up: transport_mode and http_transport
    server           \* start-up: where run() is and what it resolved

vars == <<router, pc, method, primary_reason, outcome, calls, result,
          metrics, weights, scorecard, spc, risk_profile, signal,
          indicator_call, indicator_result, metric_call, metric_result,
          analysis_call, analysis_result, tool_call, tool_result,
          environ, settings, server>>

routerVars == <<router, pc, method, primary_reason, outcome, calls, result>>
scoreVars == <<metrics, weights, scorecard, spc>>
signalVars == <<risk_profile, signal>>
indicatorVars == <<indicator_call, indicator_result>>
metricVars == <<metric_call, metric_result>>
analysisVars == <<analysis_call, analysis_result>>
toolVars == <<tool_call, tool_result>>
startupVars == <<environ, settings, server>>

\* What each component's steps leave alone.
outsideRouter ==
    <<scoreVars, signalVars, indicatorVars, metricVars, analysisVars, toolVars, startupVars>>
outsideScore ==
    <<routerVars, signalVars, indicatorVars, metricVars, analysisVars, toolVars, startupVars>>
outsideSignal ==
    <<routerVars, metrics, weights, spc, indicatorVars, metricVars, analysisVars,
      toolVars, startupVars>>
outsideIndicators ==
    <<routerVars, scoreVars, signalVars, metricVars, analysisVars, toolVars, startupVars>>
outsideMetrics ==
    <<routerVars, scoreVars, signalVars, indicatorVars, analysisVars, toolVars, startupVars>>
outsideAnalysis ==
    <<routerVars, scoreVars, signalVars, indicatorVars, metricVars, toolVars, startupVars>>
outsideTools ==
    <<routerVars, scoreVars, signalVars, indicatorVars, metricVars, analysisVars, startupVars>>
outsideStartup ==
    <<routerVars, scoreVars, signalVars, indicatorVars, metricVars, analysisVars,
      toolVars>>


----------------------------------------------------------------------------
(* Bounds *)

NumOps == 2

Ops == 1..NumOps

----------------------------------------------------------------------------
(* Python values *)

None == [tag |-> "None"]

Str(pieces) == [tag |-> "str", text |-> pieces]

\* A list of n bars or a dict of n keys, `present` of them not None.
Container(tag, n, present, by) ==
    [tag |-> tag, size |-> n, present |-> present, by |-> by]

\* A schema record (PriceData, StockNewsData, ...), `present` data fields or
\* items not None/empty.
Object(cls, present, by) ==
    [tag |-> "object", cls |-> cls, present |-> present, by |-> by]

\* Variant: `is not None` in place of the truth value.
IsNotNone(v) == v.tag # "None"

\* `if primary_result:` / `if secondary_result:`: None, [] and {} are false,
\* every other list or dict and every schema record is true.
Truthy(v) ==
    CASE v.tag = "None" -> FALSE
      [] v.tag \in {"list", "dict"} -> v.size > 0
      [] OTHER -> TRUE

----------------------------------------------------------------------------
(* Providers *)

Methods == {"get_price", "get_candles", "get_stock_news", "get_technicals"}

\* What provider `by` can return from `m`.
ProviderResults(by, m) ==
    CASE m = "get_price" ->
            {None, Object("PriceData", 1, by)}
      [] m = "get_candles" ->
            {Container("list", 0, 0, by), Container("list", 2, 2, by)}
      [] m = "get_stock_news" ->
            {None, Object("StockNewsData", 0, by), Object("StockNewsData", 2, by)}
      [] m = "get_technicals" ->
            {Container("dict", 5, 0, by)}
      [] OTHER -> {}

\* str(error) of what a provider call can raise.
ErrorDetails ==
    {"HTTP request failed for URL: u", "Expecting value: line 1 column 1 (char 0)"}

Returned(v) == [kind |-> "return", value |-> v]
Raised(d) == [kind |-> "raise", detail |-> d]
Cancelled == [kind |-> "cancelled"]
NotCalled == [kind |-> "not called"]

----------------------------------------------------------------------------
(* RoutedData and the texts of _with_fallback_routed *)

RoutedData(data, fallback_warning, source) ==
    [kind |-> "returned", data |-> data,
     fallback_warning |-> fallback_warning, source |-> source]

\* An exception leaving _with_fallback_routed.
Propagated(exc) == [kind |-> "raised", exc |-> exc]

Pending == [kind |-> "pending"]

NoDataReason == <<"no data returned">>

\* Variant: the reason without the error's text.
RequestFailedReasonNoDetail(detail) == <<"request failed">>

RequestFailedReason(detail) == <<"request failed (", detail, ")">>

UsingFallbackWarning(reason) ==
    Str(<<"Primary provider (", router.primary, ") ">> \o reason
        \o <<"; using fallback provider (", router.secondary, ").">>)

BothFailedWarning(m, reason, detail) ==
    Str(<<"Both providers failed for ", m, ": ", router.primary, " (">> \o reason
        \o <<"); ", router.secondary, " (request failed: ", detail, ").">>)

NoProviderWarning(m) ==
    Str(<<"No provider returned data for ", m, " (", router.primary, " then ",
          router.secondary, ").">>)

\* Variant: the primary's success carrying a fallback warning.
PrimarySuccessWithWarning(v) ==
    RoutedData(v, UsingFallbackWarning(NoDataReason), Str(<<router.primary>>))

PrimarySuccess(v) == RoutedData(v, None, Str(<<router.primary>>))

SecondarySuccess(v, reason) ==
    RoutedData(v, UsingFallbackWarning(reason), Str(<<router.secondary>>))

----------------------------------------------------------------------------
(* The coroutine of one routed operation *)

\* primary_reason is a local of the coroutine: one cell per operation.
\* Variant: primary_reason kept in one cell shared by all operations.
FrameShared(op) == CHOOSE o \in Ops : TRUE

Frame(op) == op

\* Lines 63-67: the call, up to the suspension in the primary's method.
Invoke(op, m) ==
    /\ pc[op] = "idle"
    /\ method' = [method EXCEPT ![op] = m]
    /\ primary_reason' = [primary_reason EXCEPT ![Frame(op)] = NoDataReason]
    /\ calls' = [calls EXCEPT ![op] = <<"primary">>]
    /\ pc' = [pc EXCEPT ![op] = "await_primary"]
    /\ UNCHANGED <<router, outcome, result, outsideRouter>>

\* Lines 67-69, 74-75: the primary's method returns v.
PrimaryReturns(op, v) ==
    /\ pc[op] = "await_primary"
    /\ v \in ProviderResults(router.primary, method[op])
    /\ outcome' = [outcome EXCEPT ![op].primary = Returned(v)]
    /\ IF Truthy(v)
       THEN /\ result' = [result EXCEPT ![op] = PrimarySuccess(v)]
            /\ pc' = [pc EXCEPT ![op] = "done"]
            /\ UNCHANGED calls
       ELSE /\ calls' = [calls EXCEPT ![op] = Append(@, "secondary")]
            /\ pc' = [pc EXCEPT ![op] = "await_secondary"]
            /\ UNCHANGED result
    /\ UNCHANGED <<router, method, primary_reason, outsideRouter>>

\* Variant: the primary's await outside any try, its exception leaving the
\* router.
PrimaryRaisesUncaught(op, d) ==
    /\ pc[op] = "await_primary"
    /\ d \in ErrorDetails
    /\ outcome' = [outcome EXCEPT ![op].primary = Raised(d)]
    /\ result' = [result EXCEPT ![op] = Propagated(d)]
    /\ pc' = [pc EXCEPT ![op] = "done"]
    /\ UNCHANGED <<router, method, primary_reason, calls, outsideRouter>>

\* Lines 70-75: the primary's method raises an Exception.
PrimaryRaises(op, d) ==
    /\ pc[op] = "await_primary"
    /\ d \in ErrorDetails
    /\ outcome' = [outcome EXCEPT ![op].primary = Raised(d)]
    /\ primary_reason' =
           [primary_reason EXCEPT ![Frame(op)] = RequestFailedReason(d)]
    /\ calls' = [calls EXCEPT ![op] = Append(@, "secondary")]
    /\ pc' = [pc EXCEPT ![op] = "await_secondary"]
    /\ UNCHANGED <<router, method, result, outsideRouter>>

\* Lines 75-84, 94-99: the secondary's method returns v.
SecondaryReturns(op, v) ==
    /\ pc[op] = "await_secondary"
    /\ v \in ProviderResults(router.secondary, method[op])
    /\ outcome' = [outcome EXCEPT ![op].secondary = Returned(v)]
    /\ result' = [result EXCEPT ![op] =
                    IF Truthy(v)
                    THEN SecondarySuccess(v, primary_reason[Frame(op)])
                    ELSE RoutedData(None, NoProviderWarning(method[op]), None)]
    /\ pc' = [pc EXCEPT ![op] = "done"]
    /\ UNCHANGED <<router, method, primary_reason, calls, outsideRouter>>

\* Lines 85-93: the secondary's method raises an Exception.
SecondaryRaises(op, d) ==
    /\ pc[op] = "await_secondary"
    /\ d \in ErrorDetails
    /\ outcome' = [outcome EXCEPT ![op].secondary = Raised(d)]
    /\ result' = [result EXCEPT ![op] =
                    RoutedData(None,
                               BothFailedWarning(method[op],
                                                 primary_reason[Frame(op)], d),
                               None)]
    /\ pc' = [pc EXCEPT ![op] = "done"]
    /\ UNCHANGED <<router, method, primary_reason, calls, outsideRouter>>

\* Variant: the cancellation caught like a provider failure.
CancelSwallowed(op) ==
    /\ pc[op] \in {"await_primary", "await_secondary"}
    /\ outcome' = [outcome EXCEPT
                     ![op][IF pc[op] = "await_primary" THEN "primary"
                           ELSE "secondary"] = Cancelled]
    /\ result' = [result EXCEPT ![op] =
                    RoutedData(None,
                               BothFailedWarning(method[op],
                                                 primary_reason[Frame(op)],
                                                 "CancelledError"),
                               None)]
    /\ pc' = [pc EXCEPT ![op] = "done"]
    /\ UNCHANGED <<router, method, primary_reason, calls, outsideRouter>>

\* The task is cancelled while suspended in a provider call: the await raises
\* asyncio.CancelledError, a BaseException, which `except Exception` (lines
\* 70 and 85) does not catch.
Cancel(op) ==
    /\ pc[op] \in {"await_primary", "await_secondary"}
    /\ outcome' = [outcome EXCEPT
                     ![op][IF pc[op] = "await_primary" THEN "primary"
                           ELSE "secondary"] = Cancelled]
    /\ result' = [result EXCEPT ![op] = Propagated("CancelledError")]
    /\ pc' = [pc EXCEPT ![op] = "done"]
    /\ UNCHANGED <<router, method, primary_reason, calls, outsideRouter>>

\* Variant: the list alone, as the fake router of the tests returns it.
GetCandlesRoutedBare(op) ==
    /\ pc[op] = "done"
    /\ method[op] = "get_candles"
    /\ result[op].kind = "returned"
    /\ result' = [result EXCEPT ![op] =
                    RoutedData(IF @.data.tag = "list" THEN @.data
                               ELSE Container("list", 0, 0, "router"),
                               None, None)]
    /\ pc' = [pc EXCEPT ![op] = "wrapped"]
    /\ UNCHANGED <<router, method, primary_reason, outcome, calls, outsideRouter>>

\* get_candles_routed, lines 146-148: what follows the await of
\* _with_fallback_routed("get_candles", ...) when it returned.
GetCandlesRouted(op) ==
    /\ pc[op] = "done"
    /\ method[op] = "get_candles"
    /\ result[op].kind = "returned"
    /\ result' = [result EXCEPT ![op] =
                    RoutedData(IF @.data.tag = "list" THEN @.data
                               ELSE Container("list", 0, 0, "router"),
                               @.fallback_warning, @.source)]
    /\ pc' = [pc EXCEPT ![op] = "wrapped"]
    /\ UNCHANGED <<router, method, primary_reason, outcome, calls, outsideRouter>>

----------------------------------------------------------------------------
(* Numbers of the scoring engine *)

\* A float holding h hundredths.
Float(h) == [tag |-> "float", h |-> h]

RECURSIVE Gcd(_, _)
Gcd(a, b) == IF b = 0 THEN a ELSE Gcd(b, a % b)

Abs(x) == IF x < 0 THEN -x ELSE x

\* The fraction n/d (d > 0) in lowest terms.
Frac(n, d) ==
    LET g == Gcd(Abs(n), d) IN IF g = 0 THEN <<0, 1>> ELSE <<n \div g, d \div g>>

\* Sum over the least common denominator.
FracAdd(x, y) ==
    LET g == Gcd(x[2], y[2])
    IN  Frac(x[1] * (y[2] \div g) + y[1] * (x[2] \div g), (x[2] \div g) * y[2])

FracSub(x, y) == FracAdd(x, <<-y[1], y[2]>>)

FracMul(x, y) ==
    LET a == Frac(x[1], y[2])
        b == Frac(y[1], x[2])
    IN  <<a[1] * b[1], a[2] * b[2]>>

\* x / y for y # 0
FracDiv(x, y) ==
    IF y[1] > 0 THEN FracMul(x, <<y[2], y[1]>>) ELSE FracMul(x, <<-y[2], -y[1]>>)

FracLess(x, y) == x[1] * y[2] < y[1] * x[2]

FracMax(x, y) == IF FracLess(x, y) THEN y ELSE x

FracMin(x, y) == IF FracLess(x, y) THEN x ELSE y

\* round(x, 2) of the score x = n/d, in hundredths; a tie goes to the even
\* neighbour, as Python rounds.
Round2(x) ==
    LET n == 100 * x[1]
        q == n \div x[2]
        r == n % x[2]
    IN  IF 2 * r < x[2] THEN q
        ELSE IF 2 * r > x[2] THEN q + 1
        ELSE IF q % 2 = 0 THEN q ELSE q + 1

----------------------------------------------------------------------------
(* scoring/engine.py; thresholds are in hundredths *)

\* Variant: the interpolation without its clamps.
_score_inverse_unclamped(value, good_below, bad_above) ==
    IF value = None THEN <<50, 1>>
    ELSE LET span == bad_above - good_below
         IN  Frac(100 * span - (value.h - good_below) * 100, span)

_score_inverse(value, good_below, bad_above) ==
    IF value = None THEN <<50, 1>>
    ELSE IF value.h <= good_below THEN <<100, 1>>
    ELSE IF value.h >= bad_above THEN <<0, 1>>
    ELSE LET span == bad_above - good_below
         IN  FracMax(<<0, 1>>,
                     Frac(100 * span - (value.h - good_below) * 100, span))

\* Variant: an absent metric scored as the worst value.
_score_direct_absent_zero(value, bad_below, good_above) ==
    IF value = None THEN <<0, 1>>
    ELSE IF value.h <= bad_below THEN <<0, 1>>
    ELSE IF value.h >= good_above THEN <<100, 1>>
    ELSE LET span == good_above - bad_below
         IN  FracMin(<<100, 1>>, Frac((value.h - bad_below) * 100, span))

_score_direct(value, bad_below, good_above) ==
    IF value = None THEN <<50, 1>>
    ELSE IF value.h <= bad_below THEN <<0, 1>>
    ELSE IF value.h >= good_above THEN <<100, 1>>
    ELSE LET span == good_above - bad_below
         IN  FracMin(<<100, 1>>, Frac((value.h - bad_below) * 100, span))

\* round(total / n, 2)
RoundedMean(total, n) == Round2(Frac(total[1], total[2] * n))

score_value(m) ==
    LET pe_score == _score_inverse(m.pe, 1200, 4500)
        ps_score == _score_inverse(m.ps, 150, 1500)
        ev_ebitda_score == _score_inverse(m.ev_ebitda, 800, 4000)
    IN  RoundedMean(FracAdd(FracAdd(pe_score, ps_score), ev_ebitda_score), 3)

score_growth(m) ==
    LET revenue == _score_direct(m.revenue_yoy, -500, 3000)
        eps == _score_direct(m.eps_yoy, -1000, 3500)
        forward == _score_direct(m.forward_eps_growth, 0, 2500)
        cagr == _score_direct(m.revenue_cagr_3y, 0, 2000)
    IN  RoundedMean(FracAdd(FracAdd(FracAdd(revenue, eps), forward), cagr), 4)

\* Variant: the margin and ROE thresholds read as percentages.
score_quality_percent(m) ==
    LET margin == _score_direct(m.net_margin, 500, 2500)
        roe == _score_direct(m.roe, 500, 3000)
        debt == _score_inverse(m.debt_equity, 30, 200)
    IN  RoundedMean(FracAdd(FracAdd(margin, roe), debt), 3)

score_quality(m) ==
    LET margin == _score_direct(m.net_margin, 5, 25)
        roe == _score_direct(m.roe, 5, 30)
        debt == _score_inverse(m.debt_equity, 30, 200)
    IN  RoundedMean(FracAdd(FracAdd(margin, roe), debt), 3)

score_momentum(m) ==
    LET drawdown == _score_inverse(m.drawdown_risk, 1000, 6000)
        vol == _score_inverse(m.volatility_proxy, 150, 700)
    IN  RoundedMean(FracAdd(drawdown, vol), 2)

score_risk(m) ==
    LET beta == _score_inverse(m.beta, 80, 200)
        drawdown == _score_inverse(m.drawdown_risk, 1000, 7000)
        debt == _score_inverse(m.debt_equity, 40, 250)
    IN  RoundedMean(FracAdd(FracAdd(beta, drawdown), debt), 3)

\* Scores and weights are hundredths: the weighted sum is in 1/10000.
composite_score(m, w) ==
    LET value == score_value(m)
        growth == score_growth(m)
        quality == score_quality(m)
        momentum == score_momentum(m)
        risk == score_risk(m)
        weighted == value * w.value + growth * w.growth + quality * w.quality
                    + momentum * w.momentum + risk * w.risk
    IN  [value |-> value, growth |-> growth, quality |-> quality,
         momentum |-> momentum, risk |-> risk,
         composite |-> Round2(Frac(weighted, 10000))]

----------------------------------------------------------------------------
(* A scoring request: a MetricsTable is filled in, then scored *)

\* At most this many fields of the table are present.
MaxPresent == 3

MetricFields ==
    {"revenue_yoy", "revenue_cagr_3y", "revenue_cagr_5y", "eps_yoy",
     "forward_eps_growth", "margin_trend", "gross_margin", "operating_margin",
     "net_margin", "roe", "roic", "debt_equity", "pe", "forward_pe", "ps",
     "ev_ebitda", "beta", "volatility_proxy", "drawdown_risk"}

\* The fields the scoring engine reads.
ScoredFields ==
    {"pe", "ps", "ev_ebitda", "revenue_yoy", "eps_yoy", "forward_eps_growth",
     "revenue_cagr_3y", "net_margin", "roe", "debt_equity", "drawdown_risk",
     "volatility_proxy", "beta"}

\* Variant: a table whose fields default to zero.
ZeroedMetrics == [f \in MetricFields |-> Float(0)]

\* MetricsTable(): every field defaults to None.
EmptyMetrics == [f \in MetricFields |-> None]

\* The table of tests/test_scoring.py, in hundredths.
TestMetric(f) ==
    CASE f = "revenue_yoy" -> 20
      [] f = "revenue_cagr_3y" -> 15
      [] f = "eps_yoy" -> 18
      [] f = "forward_eps_growth" -> 12
      [] f = "net_margin" -> 25
      [] f = "roe" -> 28
      [] f = "debt_equity" -> 70
      [] f = "pe" -> 2000
      [] f = "ps" -> 500
      [] f = "ev_ebitda" -> 1400
      [] f = "beta" -> 100
      [] f = "volatility_proxy" -> 220
      [] f = "drawdown_risk" -> 2200

\* A value far beyond every threshold, on either side.
FarOut == 100000

MetricValues(f) == {Float(-FarOut), Float(TestMetric(f)), Float(FarOut)}

\* ScoringWeights(): the defaults of config/settings.py.
DefaultWeights ==
    [value |-> 20, growth |-> 25, quality |-> 20, momentum |-> 20, risk |-> 15]

UniformWeights(w) ==
    [value |-> w, growth |-> w, quality |-> w, momentum |-> w, risk |-> w]

\* Weights the settings accept: each field ge=0, le=1.
WeightChoices ==
    {DefaultWeights, UniformWeights(0), UniformWeights(100),
     [value |-> 100, growth |-> 0, quality |-> 50, momentum |-> 100, risk |-> 0]}

Present(m) == {f \in MetricFields : m[f] # None}

SetMetric(f, v) ==
    /\ spc = "input"
    /\ metrics[f] = None
    /\ Cardinality(Present(metrics)) < MaxPresent
    /\ metrics' = [metrics EXCEPT ![f] = v]
    /\ UNCHANGED <<weights, scorecard, spc>>
    /\ UNCHANGED outsideScore

\* composite_score(metrics, settings.scoring_weights)
CompositeScore(w) ==
    /\ spc = "input"
    /\ weights' = w
    /\ scorecard' = composite_score(metrics, w)
    /\ spc' = "scored"
    /\ UNCHANGED metrics
    /\ UNCHANGED outsideScore

----------------------------------------------------------------------------
(* analysis/signal_engine.py; scores and confidences are hundredths *)

\* round(x, 2) of a float whose exact value is x = n/d. Away from a tie the
\* float error cannot change the result; at an exact tie the float nearest
\* to x lies on either side of it, so either neighbour can come out.
Round2Float(x) ==
    LET n == 100 * x[1]
        q == n \div x[2]
        r == n % x[2]
    IN  IF 2 * r = x[2] THEN {q, q + 1} ELSE {Round2(x)}

RiskProfiles == {"moderate", "aggressive", "conservative"}

\* Variant: the buy thresholds of the aggressive and the conservative profile
\* exchanged.
threshold_buy_exchanged(rp) ==
    IF rp = "aggressive" THEN 7500
    ELSE IF rp = "conservative" THEN 6500
    ELSE 7000

\* Variant: the moderate threshold for every profile.
threshold_buy_default(rp) == 7000

threshold_buy(rp) ==
    IF rp = "aggressive" THEN 6500
    ELSE IF rp = "conservative" THEN 7500
    ELSE 7000

\* Variant: the moderate sell threshold for every profile.
threshold_sell_default(rp) == 4500

threshold_sell(rp) ==
    IF rp = "aggressive" THEN 4000
    ELSE IF rp = "conservative" THEN 5000
    ELSE 4500

\* The tuple (signal, confidence).
SignalTuple(sig, confidence) ==
    [tag |-> "tuple", signal |-> sig, confidence |-> confidence]

\* Variant: the Hold confidence grows by the whole distance to the midpoint.
generate_signal_full_distance(sc, rp) ==
    LET buy == threshold_buy(rp)
        sell == threshold_sell(rp)
        score == sc.composite
    IN  IF score >= buy
        THEN {SignalTuple("Buy", IF score < 10000 THEN score ELSE 10000)}
        ELSE IF score <= sell
        THEN {SignalTuple("Sell", IF 10000 - score < 10000
                                  THEN 10000 - score ELSE 10000)}
        ELSE {SignalTuple("Hold", c) :
                c \in Round2Float(Frac(12000 + Abs(2 * score - (buy + sell)),
                                       200))}

\* The set of tuples generate_signal can return: one signal, and one
\* confidence except where round() meets a tie.
generate_signal(sc, rp) ==
    LET buy == threshold_buy(rp)
        sell == threshold_sell(rp)
        score == sc.composite
    IN  IF score >= buy
        THEN {SignalTuple("Buy", IF score < 10000 THEN score ELSE 10000)}
        ELSE IF score <= sell
        THEN {SignalTuple("Sell", IF 10000 - score < 10000
                                  THEN 10000 - score ELSE 10000)}
        ELSE {SignalTuple("Hold", c) :
                c \in Round2Float(Frac(24000 + Abs(2 * score - (buy + sell)),
                                       400))}

\* The largest composite handed to generate_signal, in hundredths.
MaxComposite == 10000

\* A Scorecard whose five sub-scores and composite are all c.
UniformScorecard(c) ==
    [value |-> c, growth |-> c, quality |-> c, momentum |-> c, risk |-> c,
     composite |-> c]

\* signal, confidence = generate_signal(scorecard, request.risk_profile)
GenerateSignal(rp) ==
    /\ signal = None
    /\ risk_profile' = rp
    /\ signal' \in generate_signal(scorecard, rp)
    /\ UNCHANGED <<scorecard, outsideSignal>>

----------------------------------------------------------------------------
(* indicators/technical.py; a float is the exact fraction it stands for *)

Number(q) == [tag |-> "float", q |-> q]

\* sum(values), adding from the left; the total so far is a fraction in
\* lowest terms (positive denominator) before the next element is added.
RECURSIVE sum_from(_, _, _)
sum_from(values, idx, total) ==
    IF idx > Len(values) THEN total
    ELSE LET next == FracAdd(total, values[idx])
         IN  IF next[2] > 0 THEN sum_from(values, idx + 1, next) ELSE next

sum(values) == sum_from(values, 1, <<0, 1>>)

\* Lines 15-16: for value in values[period:]: ema = (value - ema) * multiplier + ema
RECURSIVE ema_loop(_, _, _, _)
ema_loop(values, idx, multiplier, ema) ==
    IF idx > Len(values) THEN ema
    ELSE LET next == FracAdd(FracMul(FracSub(values[idx], ema), multiplier), ema)
         IN  IF next[2] > 0 THEN ema_loop(values, idx + 1, multiplier, next)
             ELSE next

\* Variant: a series of exactly `period` values counts as too short.
calculate_ema_needs_more(values, period) ==
    IF Len(values) <= period THEN None
    ELSE Number(ema_loop(values, period + 1, Frac(2, period + 1),
                         FracDiv(sum(SubSeq(values, 1, period)), <<period, 1>>)))

calculate_ema(values, period) ==
    IF Len(values) < period THEN None
    ELSE Number(ema_loop(values, period + 1, Frac(2, period + 1),
                         FracDiv(sum(SubSeq(values, 1, period)), <<period, 1>>)))

\* Lines 27-30: the gain and the loss of each step of the series.
gains(values) ==
    [idx \in 1..(Len(values) - 1) |->
        FracMax(FracSub(values[idx + 1], values[idx]), <<0, 1>>)]

losses(values) ==
    [idx \in 1..(Len(values) - 1) |->
        LET m == FracMin(FracSub(values[idx + 1], values[idx]), <<0, 1>>)
        IN  <<Abs(m[1]), m[2]>>]

\* Lines 33-35: avg = ((avg * (period - 1)) + series[idx]) / period
RECURSIVE smoothed(_, _, _, _)
smoothed(series, idx, period, avg) ==
    IF idx > Len(series) THEN avg
    ELSE LET next == FracDiv(FracAdd(FracMul(avg, <<period - 1, 1>>), series[idx]),
                             <<period, 1>>)
         IN  IF next[2] > 0 THEN smoothed(series, idx + 1, period, next)
             ELSE next

\* Variant: the relative strength taken without looking at the average loss.
calculate_rsi_unguarded(values, period) ==
    IF Len(values) <= period THEN None
    ELSE LET avg_gain == smoothed(gains(values), period + 1, period,
                                  FracDiv(sum(SubSeq(gains(values), 1, period)),
                                          <<period, 1>>))
             avg_loss == smoothed(losses(values), period + 1, period,
                                  FracDiv(sum(SubSeq(losses(values), 1, period)),
                                          <<period, 1>>))
         IN  IF avg_loss = <<0, 1>> THEN [tag |-> "raised", exc |-> "ZeroDivisionError"]
             ELSE Number(FracSub(<<100, 1>>,
                                 FracDiv(<<100, 1>>,
                                         FracAdd(<<1, 1>>, FracDiv(avg_gain, avg_loss)))))

calculate_rsi(values, period) ==
    IF Len(values) <= period THEN None
    ELSE LET avg_gain == smoothed(gains(values), period + 1, period,
                                  FracDiv(sum(SubSeq(gains(values), 1, period)),
                                          <<period, 1>>))
             avg_loss == smoothed(losses(values), period + 1, period,
                                  FracDiv(sum(SubSeq(losses(values), 1, period)),
                                          <<period, 1>>))
         IN  IF avg_loss = <<0, 1>> THEN Number(<<100, 1>>)
             ELSE Number(FracSub(<<100, 1>>,
                                 FracDiv(<<100, 1>>,
                                         FracAdd(<<1, 1>>, FracDiv(avg_gain, avg_loss)))))

\* The tuple (macd, signal).
MacdTuple(macd, macd_signal) ==
    [tag |-> "tuple", macd |-> macd, signal |-> macd_signal]

\* Lines 48-54: one MACD point for each prefix on which both EMAs exist.
RECURSIVE macd_loop(_, _, _)
macd_loop(values, idx, macd_series) ==
    IF idx > Len(values) THEN macd_series
    ELSE LET prefix == SubSeq(values, 1, idx)
             ema12 == calculate_ema(prefix, 12)
             ema26 == calculate_ema(prefix, 26)
             next == IF ema12 = None \/ ema26 = None THEN macd_series
                     ELSE Append(macd_series, FracSub(ema12.q, ema26.q))
         IN  IF Len(next) >= Len(macd_series)
             THEN macd_loop(values, idx + 1, next)
             ELSE next

calculate_macd(values) ==
    IF Len(values) < 35 THEN MacdTuple(None, None)
    ELSE LET macd_series == macd_loop(values, 1, <<>>)
         IN  IF macd_series = <<>> THEN MacdTuple(None, None)
             ELSE MacdTuple(Number(macd_series[Len(macd_series)]),
                            calculate_ema(macd_series, 9))

----------------------------------------------------------------------------
(* Calls of the indicators *)

\* The longest series handed to an indicator.
MaxLen == 40

\* n closes of value a.
Flat(n, a) == [i \in 1..n |-> <<a, 1>>]

\* The closes a series can end with after a flat stretch.
Tails ==
    {<<>>}
    \cup {<<<<b, 1>>>> : b \in 1..3}
    \cup {<<<<b, 1>>, <<c, 1>>>> : b \in 1..3, c \in 1..3}

\* Flat series that move in their last two closes at most.
FlatThenMove == {Flat(n, 2) \o t : n \in 0..(MaxLen - 2), t \in Tails}

\* The closes 1, 2, ..., n and n, ..., 2, 1.
Rising(n) == [i \in 1..n |-> <<i, 1>>]

Falling(n) == [i \in 1..n |-> <<n + 1 - i, 1>>]

Ramps == {Rising(n) : n \in 0..MaxLen} \cup {Falling(n) : n \in 0..MaxLen}

\* The periods the server passes to calculate_ema, and a short one.
EmaPeriods == {2, 9, 12, 20, 26, 50, 200}

RsiPeriods == {2, 14}

CalculateEma(values, period) ==
    /\ indicator_call = None
    /\ indicator_call' = [fn |-> "calculate_ema", values |-> values,
                          period |-> period]
    /\ indicator_result' = calculate_ema(values, period)
    /\ UNCHANGED outsideIndicators

CalculateRsi(values, period) ==
    /\ indicator_call = None
    /\ indicator_call' = [fn |-> "calculate_rsi", values |-> values,
                          period |-> period]
    /\ indicator_result' = calculate_rsi(values, period)
    /\ UNCHANGED outsideIndicators

CalculateMacd(values) ==
    /\ indicator_call = None
    /\ indicator_call' = [fn |-> "calculate_macd", values |-> values]
    /\ indicator_result' = calculate_macd(values)
    /\ UNCHANGED outsideIndicators

----------------------------------------------------------------------------
(* analysis/metrics.py *)

\* The float of exact value q: whole hundredths are held as Float, as the
\* fields of the records are, any other value as its fraction.
FloatOf(q) ==
    IF 100 % q[2] = 0 THEN Float(q[1] * (100 \div q[2])) ELSE Number(q)

\* The exact value of a float.
AsFrac(v) == IF "h" \in DOMAIN v THEN Frac(v.h, 100) ELSE v.q

\* An OHLCVBar; of its fields the computations read only date and close.
OHLCVBar(date, close) == [date |-> date, close |-> close]

\* Variant: the bars left in their order of arrival.
sorted_as_arrived(bars) == bars

\* sorted(bars, key=lambda item: item.date): ascending by date, bars of equal
\* date in their order of arrival.
sorted(bars) ==
    LET n == Len(bars)
        before(j, i) == \/ bars[j].date < bars[i].date
                        \/ bars[j].date = bars[i].date /\ j < i
        rank(i) == Cardinality({j \in 1..n : before(j, i)}) + 1
    IN  [k \in 1..n |-> bars[CHOOSE i \in 1..n : rank(i) = k]]

\* closes = [bar.close for bar in sorted(bars, key=lambda item: item.date)]
closes_of(bars) ==
    LET ordered == sorted(bars)
    IN  [i \in 1..Len(bars) |-> AsFrac(ordered[i].close)]

\* volatility_proxy, lines 31-45.
volatility_proxy(bars) ==
    IF Len(bars) < 2 THEN None
    ELSE LET closes == closes_of(bars)
             steps == {idx \in 2..Len(closes) : closes[idx - 1] # <<0, 1>>}
             change(idx) ==
                 LET r == FracDiv(FracSub(closes[idx], closes[idx - 1]),
                                  closes[idx - 1])
                 IN  <<Abs(r[1]) * 100, r[2]>>
             returns == [idx \in 2..Len(closes) |->
                           IF idx \in steps THEN Frac(change(idx)[1], change(idx)[2])
                           ELSE <<0, 1>>]
         IN  IF steps = {} THEN None
             ELSE FloatOf(FracDiv(sum([k \in 1..(Len(closes) - 1) |-> returns[k + 1]]),
                                  <<Cardinality(steps), 1>>))

\* Variant: the drawdown of the latest close instead of the deepest one.
RECURSIVE drawdown_loop_latest(_, _, _, _)
drawdown_loop_latest(closes, idx, peak, max_drawdown) ==
    IF idx > Len(closes) THEN max_drawdown
    ELSE LET close == closes[idx]
             new_peak == IF FracLess(peak, close) THEN close ELSE peak
             next == IF FracLess(<<0, 1>>, new_peak)
                     THEN FracMul(FracDiv(FracSub(new_peak, close), new_peak),
                                  <<100, 1>>)
                     ELSE max_drawdown
         IN  IF new_peak[2] > 0 /\ next[2] > 0
             THEN drawdown_loop_latest(closes, idx + 1, new_peak, next)
             ELSE next

\* Lines 56-61: the running peak and the deepest drawdown below it.
RECURSIVE drawdown_loop(_, _, _, _)
drawdown_loop(closes, idx, peak, max_drawdown) ==
    IF idx > Len(closes) THEN max_drawdown
    ELSE LET close == closes[idx]
             new_peak == IF FracLess(peak, close) THEN close ELSE peak
             next == IF FracLess(<<0, 1>>, new_peak)
                     THEN FracMax(max_drawdown,
                                  FracMul(FracDiv(FracSub(new_peak, close), new_peak),
                                          <<100, 1>>))
                     ELSE max_drawdown
         IN  IF new_peak[2] > 0 /\ next[2] > 0
             THEN drawdown_loop(closes, idx + 1, new_peak, next)
             ELSE next

\* Variant: unavailable below two bars, as the volatility proxy is.
drawdown_risk_needs_two(bars) ==
    IF Len(bars) < 2 THEN None
    ELSE LET closes == closes_of(bars)
         IN  FloatOf(drawdown_loop(closes, 1, closes[1], <<0, 1>>))

drawdown_risk(bars) ==
    IF bars = <<>> THEN None
    ELSE LET closes == closes_of(bars)
         IN  FloatOf(drawdown_loop(closes, 1, closes[1], <<0, 1>>))

\* An exception leaving the function.
Raises(exc) == [tag |-> "raised", exc |-> exc]

\* The whole number whose k-th power is n.
IntRoot(n, k) == CHOOSE r \in 0..n : r^k = n

\* safe_cagr, lines 10-19. math.pow raises ValueError for a negative base
\* with a fractional exponent; the root is exact on the ratios used here.
safe_cagr(values, years) ==
    IF Len(values) < years + 1 THEN None
    ELSE LET start == AsFrac(values[Len(values) - years])
             end == AsFrac(values[Len(values)])
         IN  IF ~FracLess(<<0, 1>>, start) THEN None
             ELSE LET ratio == FracDiv(end, start)
                  IN  IF ratio[1] < 0 THEN Raises("ValueError")
                      ELSE FloatOf(FracMul(FracSub(<<IntRoot(ratio[1], years),
                                                     IntRoot(ratio[2], years)>>,
                                                   <<1, 1>>),
                                           <<100, 1>>))

\* margin_trend, lines 22-28.
margin_trend(gross_margin, operating_margin, net_margin) ==
    LET margins == SelectSeq(<<gross_margin, operating_margin, net_margin>>,
                             LAMBDA value : value # None)
    IN  IF margins = <<>> THEN None
        ELSE FloatOf(FracDiv(sum([i \in 1..Len(margins) |-> AsFrac(margins[i])]),
                             <<Len(margins), 1>>))

\* compute_metrics, lines 65-98; an exception of safe_cagr leaves it too.
compute_metrics(fundamentals, bars) ==
    IF fundamentals = None
    THEN [EmptyMetrics EXCEPT !.volatility_proxy = volatility_proxy(bars),
                              !.drawdown_risk = drawdown_risk(bars)]
    ELSE LET revenue_cagr_3y == safe_cagr(fundamentals.revenue_history, 3)
             revenue_cagr_5y == safe_cagr(fundamentals.revenue_history, 5)
         IN  IF revenue_cagr_3y.tag = "raised" THEN revenue_cagr_3y
             ELSE IF revenue_cagr_5y.tag = "raised" THEN revenue_cagr_5y
             ELSE [revenue_yoy |-> fundamentals.revenue_yoy,
                   revenue_cagr_3y |-> revenue_cagr_3y,
                   revenue_cagr_5y |-> revenue_cagr_5y,
                   eps_yoy |-> fundamentals.eps_yoy,
                   forward_eps_growth |-> fundamentals.forward_eps_growth,
                   margin_trend |-> margin_trend(fundamentals.gross_margin,
                                                 fundamentals.operating_margin,
                                                 fundamentals.net_margin),
                   gross_margin |-> fundamentals.gross_margin,
                   operating_margin |-> fundamentals.operating_margin,
                   net_margin |-> fundamentals.net_margin,
                   roe |-> fundamentals.roe,
                   roic |-> fundamentals.roe,
                   debt_equity |-> fundamentals.debt_to_equity,
                   pe |-> fundamentals.pe,
                   forward_pe |-> fundamentals.forward_pe,
                   ps |-> fundamentals.ps,
                   ev_ebitda |-> fundamentals.ev_ebitda,
                   beta |-> fundamentals.beta,
                   volatility_proxy |-> volatility_proxy(bars),
                   drawdown_risk |-> drawdown_risk(bars)]

----------------------------------------------------------------------------
(* Calls of the metrics *)

\* The bars of tests/test_metrics.py: seven consecutive days.
TestBars ==
    LET prices == <<100, 102, 99, 105, 103, 108, 107>>
    IN  [idx \in 1..7 |-> OHLCVBar(idx, Float(100 * prices[idx]))]

\* The longest list of bars tried in every order of arrival.
MaxBars == 3

\* The arrival orders of n bars dated 1..n.
Orders(n) == {o \in [1..n -> 1..n] : \A i, j \in 1..n : o[i] = o[j] => i = j}

\* Up to MaxBars bars of distinct dates, closes 0.00 to 3.00, in any order.
SmallBars ==
    UNION {{[idx \in 1..n |-> OHLCVBar(o[idx], Float(100 * c[idx]))] :
              o \in Orders(n), c \in [1..n -> 0..3]} : n \in 0..MaxBars}

DrawdownRisk(bars) ==
    /\ metric_call = None
    /\ metric_call' = [fn |-> "drawdown_risk", bars |-> bars]
    /\ metric_result' = drawdown_risk(bars)
    /\ UNCHANGED outsideMetrics

VolatilityProxy(bars) ==
    /\ metric_call = None
    /\ metric_call' = [fn |-> "volatility_proxy", bars |-> bars]
    /\ metric_result' = volatility_proxy(bars)
    /\ UNCHANGED outsideMetrics

\* Revenue histories, oldest first: the last six annual revenues or fewer.
\* The values read by safe_cagr are `five` (years=5), `three` (years=3) and
\* `newest`; each growth ratio is 0 or a perfect cube / fifth power.
History(five, three, newest) ==
    <<Float(100 * five), Float(100), Float(100 * three), Float(100),
      Float(100), Float(100 * newest)>>

RevenueHistories ==
    {SubSeq(History(five, three, newest), 7 - n, 6) :
        five \in {-1, 8, 256}, three \in {0, 1, 64}, newest \in {-8, 0, 8},
        n \in 0..6}

\* The optional numbers of FundamentalsData.
FundamentalFields ==
    {"pe", "forward_pe", "ps", "ev_ebitda", "beta", "roe", "debt_to_equity",
     "gross_margin", "operating_margin", "net_margin", "revenue_yoy",
     "eps_yoy", "forward_eps_growth"}

\* The fundamentals of tests/test_metrics.py, in hundredths.
TestFundamental(f) ==
    CASE f = "pe" -> 2800
      [] f = "forward_pe" -> 2500
      [] f = "ps" -> 700
      [] f = "ev_ebitda" -> 1800
      [] f = "beta" -> 110
      [] f = "roe" -> 30
      [] f = "debt_to_equity" -> 120
      [] f = "gross_margin" -> 45
      [] f = "operating_margin" -> 28
      [] f = "net_margin" -> 23
      [] f = "revenue_yoy" -> 12
      [] f = "eps_yoy" -> 15
      [] f = "forward_eps_growth" -> 11

\* A FundamentalsData with the given fields present.
FundamentalsData(present, revenue_history) ==
    [f \in FundamentalFields |->
        IF f \in present THEN Float(TestFundamental(f)) ELSE None]
    @@ [tag |-> "FundamentalsData", revenue_history |-> revenue_history]

\* All fields, none, all but one, one alone.
PresentChoices ==
    {FundamentalFields, {}}
    \cup {FundamentalFields \ {f} : f \in FundamentalFields}
    \cup {{f} : f \in FundamentalFields}

FundamentalsChoices ==
    {None} \cup {FundamentalsData(present, h) :
                   present \in PresentChoices, h \in RevenueHistories}

\* Bars handed to compute_metrics: none, one, a fall from 1.00 to 0.90 (out
\* of order), the test bars.
BarsChoices ==
    {<<>>, <<OHLCVBar(1, Float(100))>>,
     <<OHLCVBar(2, Float(90)), OHLCVBar(1, Float(100))>>, TestBars}

SafeCagr(values, years) ==
    /\ metric_call = None
    /\ metric_call' = [fn |-> "safe_cagr", values |-> values, years |-> years]
    /\ metric_result' = safe_cagr(values, years)
    /\ UNCHANGED outsideMetrics

ComputeMetrics(fundamentals, bars) ==
    /\ metric_call = None
    /\ metric_call' = [fn |-> "compute_metrics", fundamentals |-> fundamentals,
                       bars |-> bars]
    /\ metric_result' = compute_metrics(fundamentals, bars)
    /\ UNCHANGED outsideMetrics

----------------------------------------------------------------------------
(* The snapshot builder of indicators/technical.py *)

\* compute_technicals_from_bars, lines 62-79.
compute_technicals_from_bars(bars, source) ==
    LET closes == closes_of(bars)
        ema20 == calculate_ema(closes, 20)
        ema50 == calculate_ema(closes, 50)
        ema200 == calculate_ema(closes, 200)
        rsi == calculate_rsi(closes, 14)
        macd == calculate_macd(closes)
    IN  [tag |-> "TechnicalsData", rsi |-> rsi, macd |-> macd.macd,
         macd_signal |-> macd.signal, ema_20 |-> ema20, ema_50 |-> ema50,
         ema_200 |-> ema200, source |-> source]

\* The close of the bar dated d out of n: 2.00 on every day but the last
\* two, which close at 1.00 and 3.00.
CloseOn(d, n) ==
    IF d = n THEN Float(300) ELSE IF d = n - 1 THEN Float(100) ELSE Float(200)

\* Arrival orders of n bars dated 1..n: by date, latest first, the latest
\* bar first, the first two exchanged, the last two exchanged.
Arrivals(n) ==
    {[i \in 1..n |-> i], [i \in 1..n |-> n + 1 - i],
     [i \in 1..n |-> IF i = 1 THEN n ELSE i - 1],
     [i \in 1..n |-> IF i = 1 /\ n > 1 THEN 2 ELSE IF i = 2 THEN 1 ELSE i],
     [i \in 1..n |-> IF i = n /\ n > 1 THEN n - 1 ELSE IF i = n - 1 THEN n ELSE i]}

\* Lists of bars around the lengths at which each indicator starts to exist.
DatedBars ==
    UNION {{[i \in 1..n |-> OHLCVBar(o[i], CloseOn(o[i], n))] : o \in Arrivals(n)} :
             n \in {0, 1, 2, 14, 15, 19, 20, 34, 35, MaxLen}}

\* get_technicals: compute_technicals_from_bars(bars, source="computed")
ComputeTechnicalsFromBars(bars) ==
    /\ metric_call = None
    /\ metric_call' = [fn |-> "compute_technicals_from_bars", bars |-> bars]
    /\ metric_result' = compute_technicals_from_bars(bars, "computed")
    /\ UNCHANGED outsideMetrics

----------------------------------------------------------------------------
(* The analysis pipeline: tools/stock_tools.py and analysis/claude_engine.py *)

\* The request of a research tool call, as far as _run_full_analysis reads it.
ResearchRequest(ticker, comparison_ticker, rp, output_format) ==
    [ticker |-> ticker, comparison_ticker |-> comparison_ticker,
     risk_profile |-> rp, output_format |-> output_format]

\* The reply parsed by AnalysisSections.model_validate when the model
\* answered with the JSON it was asked for.
ParsedSections ==
    [executive_summary |-> Str(<<"(model) executive summary">>),
     growth_analysis |-> Str(<<"(model) growth analysis">>),
     valuation_analysis |-> Str(<<"(model) valuation analysis">>),
     risk_assessment |-> Str(<<"(model) risk assessment">>),
     competitive_positioning |-> Str(<<"(model) competitive positioning">>),
     final_investment_view |-> Str(<<"(model) final investment view">>),
     confidence |-> 7250,
     key_drivers |-> <<Str(<<"(model) driver">>)>>,
     bear_case |-> Str(<<"(model) bear case">>),
     bull_case |-> Str(<<"(model) bull case">>),
     assumptions |-> <<Str(<<"(model) assumption">>)>>]

\* What messages.create does: it raises, or answers with text that is the
\* requested JSON or is not.
Replies == {"raises", "json", "not json"}

\* build_sections, lines 33-59. The await of messages.create is outside the
\* try, so its exception leaves the function; only a reply that does not
\* parse or validate takes the fallback. Confidence is in hundredths.
build_sections(ticker, comparison_ticker, m, sc, reply) ==
    CASE reply = "raises" -> Raises("APIError")
      [] reply = "json" -> ParsedSections
      [] reply = "not json" ->
            [executive_summary |->
                 Str(<<"Deterministic analysis for ", ticker,
                       " generated without LLM narrative due to response format issue.">>),
             growth_analysis |->
                 Str(<<"Growth trends inferred from computed metrics only.">>),
             valuation_analysis |->
                 Str(<<"Valuation view inferred from scorecard and available multiples.">>),
             risk_assessment |->
                 Str(<<"Risk view inferred from beta, volatility proxy, and drawdown.">>),
             competitive_positioning |->
                 Str(<<"Peer comparison against ",
                       IF comparison_ticker = None THEN "market baseline"
                       ELSE comparison_ticker.text[1],
                       " is limited by available normalized data.">>),
             final_investment_view |->
                 Str(<<"Use scorecard and signal output for decision support.">>),
             confidence |->
                 LET capped == IF sc.composite < 8500 THEN sc.composite ELSE 8500
                 IN  IF capped > 3500 THEN capped ELSE 3500,
             key_drivers |->
                 <<Str(<<"Composite score">>), Str(<<"Growth metrics">>),
                   Str(<<"Risk profile alignment">>)>>,
             bear_case |->
                 Str(<<"Macro slowdown and earnings compression may weaken thesis.">>),
             bull_case |->
                 Str(<<"Execution upside and favorable valuation rerating may improve returns.">>),
             assumptions |->
                 <<Str(<<"LLM output fallback path was used due to invalid JSON response.">>)>>]

\* `fundamentals and fundamentals.pe`: None is false, and so is a P/E of 0.0.
HasPe(fundamentals) ==
    /\ fundamentals # None
    /\ fundamentals.pe # None
    /\ fundamentals.pe # Float(0)

\* Lines 249-257 of _run_full_analysis.
peer_comparison_text(request, fundamentals, peer_fundamentals) ==
    IF request.comparison_ticker = None
    THEN Str(<<"No comparison ticker provided.">>)
    ELSE IF HasPe(peer_fundamentals) /\ HasPe(fundamentals)
    THEN Str(<<request.ticker, " PE=", fundamentals.pe, " vs ",
               request.comparison_ticker.text[1], " PE=", peer_fundamentals.pe,
               ".">>)
    ELSE Str(<<"Comparison requested but not enough normalized peer data.">>)

\* The StockResearchResult of lines 266-281, for one (signal, confidence).
StockResearchResult(request, m, sc, sections, peer_text, tuple) ==
    [tag |-> "StockResearchResult",
     executive_summary |-> sections.executive_summary,
     metrics_table |-> m,
     scorecard |-> sc,
     growth_analysis |-> sections.growth_analysis,
     valuation_analysis |-> sections.valuation_analysis,
     risk_assessment |-> sections.risk_assessment,
     peer_comparison |-> peer_text,
     final_investment_view |-> sections.final_investment_view,
     confidence |-> IF request.output_format = "signal"
                    THEN tuple.confidence ELSE sections.confidence,
     assumptions |-> sections.assumptions,
     signal_if_requested |-> IF request.output_format = "signal"
                             THEN Str(<<tuple.signal>>) ELSE None]

\* _run_full_analysis, lines 243-281: the set of its outcomes, given what the
\* router returned for the bars, the fundamentals and the peer, and what the
\* model replied. Nothing in it catches an exception of compute_metrics or
\* of build_sections. Each intermediate value is bound once, as the code
\* binds it to a local variable.
_run_full_analysis(request, bars, fundamentals, peer_fundamentals, reply) ==
    UNION {
        IF "tag" \in DOMAIN m
        THEN {m}
        ELSE UNION {
            UNION {
                IF "tag" \in DOMAIN sections
                THEN {sections}
                ELSE {StockResearchResult(
                          request, m, sc, sections,
                          peer_comparison_text(request, fundamentals,
                                               peer_fundamentals),
                          tuple) :
                        tuple \in generate_signal(sc, request.risk_profile)} :
                sections \in {build_sections(request.ticker,
                                             request.comparison_ticker, m, sc,
                                             reply)}} :
            sc \in {composite_score(m, DefaultWeights)}} :
        m \in {compute_metrics(fundamentals, bars)}}

\* Requests: with and without a comparison ticker, every risk profile, both
\* output formats.
Requests ==
    {ResearchRequest("AAPL", comparison_ticker, rp, output_format) :
        comparison_ticker \in {None, Str(<<"MSFT">>)},
        rp \in RiskProfiles,
        output_format \in {"report", "signal"}}

\* router.get_ohlcv: no bars, one bar, a fall from 1.00 to 0.90.
AnalysisBars ==
    {<<>>, <<OHLCVBar(1, Float(100))>>,
     <<OHLCVBar(1, Float(100)), OHLCVBar(2, Float(90))>>}

\* router.get_fundamentals for the ticker: nothing; a record with every
\* number and no revenue history (finnhub), with a history that grew, with
\* a history whose newest revenue is negative; a record without P/E; a
\* record with no number at all.
AnalysisFundamentals ==
    {None,
     FundamentalsData(FundamentalFields, <<>>),
     FundamentalsData(FundamentalFields, History(8, 1, 8)),
     FundamentalsData(FundamentalFields, SubSeq(History(8, 1, -8), 3, 6)),
     FundamentalsData(FundamentalFields \ {"pe"}, <<>>),
     FundamentalsData({}, <<>>)}

\* router.get_fundamentals for the comparison ticker.
PeerFundamentals ==
    {None,
     FundamentalsData(FundamentalFields, <<>>),
     FundamentalsData(FundamentalFields \ {"pe"}, <<>>)}

\* One run of _run_full_analysis. The peer's fundamentals are fetched only
\* for a request with a comparison ticker.
RunFullAnalysis(request, bars, fundamentals, peer_fundamentals, reply) ==
    /\ analysis_call = None
    /\ request.comparison_ticker = None => peer_fundamentals = None
    /\ analysis_call' = [request |-> request, bars |-> bars,
                         fundamentals |-> fundamentals,
                         peer_fundamentals |-> peer_fundamentals,
                         reply |-> reply]
    /\ analysis_result' \in _run_full_analysis(request, bars, fundamentals,
                                               peer_fundamentals, reply)
    /\ UNCHANGED outsideAnalysis

----------------------------------------------------------------------------
(* The research tools: analyze_stock and stock_research_report *)

\* The values each validated field of ResearchRequest accepts.
AllowedValues ==
    [timeframe |-> {"intraday", "swing", "longterm"},
     risk_profile |-> {"conservative", "moderate", "aggressive"},
     output_format |-> {"signal", "report"}]

\* error.errors() of the ValidationError of ResearchRequest(...): the fields
\* whose value is not accepted; empty when the request is valid.
OffendingFields(args) == {f \in DOMAIN AllowedValues : args[f] \notin AllowedValues[f]}

\* What a tool call ends in: the text it returns, or an exception leaving
\* it; with the router methods it awaited, in order.
ToolReturns(value, router_calls) ==
    [tag |-> "returned", value |-> value, router_calls |-> router_calls]

ToolRaises(exc, router_calls) ==
    [tag |-> "raised", exc |-> exc, router_calls |-> router_calls]

\* json.dumps of the error payload of stock_research_report, lines 224-232.
ValidationErrorJson(fields) ==
    [tag |-> "json",
     error |-> [code |-> "validation_error",
                message |-> "Invalid request payload",
                details |-> fields]]

\* The router methods _run_full_analysis awaits (lines 243-244, 251) before
\* the exception `exc` leaves it, or all of them.
RouterCallsOf(request, analysis) ==
    IF analysis.tag = "raised" /\ analysis.exc = "ValueError"
    THEN <<"get_ohlcv", "get_fundamentals">>
    ELSE IF request.comparison_ticker = None
    THEN <<"get_ohlcv", "get_fundamentals">>
    ELSE <<"get_ohlcv", "get_fundamentals", "get_fundamentals">>

\* Lines 197-205 of analyze_stock: the signal payload or the whole result.
AnalyzeStockText(request, analysis) ==
    IF request.output_format = "signal"
    THEN [tag |-> "json", ticker |-> request.ticker,
          signal |-> analysis.signal_if_requested,
          confidence |-> analysis.confidence]
    ELSE [tag |-> "json", result |-> analysis]

\* analyze_stock, lines 183-205. ResearchRequest(...) is built outside any
\* try: its ValidationError leaves the tool, and so does an exception of the
\* analysis.
analyze_stock(args, bars, fundamentals, reply) ==
    IF OffendingFields(args) # {}
    THEN {ToolRaises("ValidationError", <<>>)}
    ELSE LET request == ResearchRequest(args.ticker, None, args.risk_profile,
                                        args.output_format)
         IN  {IF analysis.tag = "raised"
              THEN ToolRaises(analysis.exc, RouterCallsOf(request, analysis))
              ELSE ToolReturns(AnalyzeStockText(request, analysis),
                               RouterCallsOf(request, analysis)) :
                analysis \in _run_full_analysis(request, bars, fundamentals,
                                               None, reply)}

\* stock_research_report, lines 207-234.
stock_research_report(args, bars, fundamentals, peer_fundamentals, reply) ==
    IF OffendingFields(args) # {}
    THEN {ToolReturns(ValidationErrorJson(OffendingFields(args)), <<>>)}
    ELSE LET request == ResearchRequest(args.ticker, args.comparison_ticker,
                                        args.risk_profile, args.output_format)
         IN  {IF analysis.tag = "raised"
              THEN ToolRaises(analysis.exc, RouterCallsOf(request, analysis))
              ELSE ToolReturns([tag |-> "json", result |-> analysis],
                               RouterCallsOf(request, analysis)) :
                analysis \in _run_full_analysis(request, bars, fundamentals,
                                               peer_fundamentals, reply)}

\* Arguments of a research tool: accepted values and one value no field
\* accepts.
ResearchArgs ==
    {[ticker |-> "AAPL", comparison_ticker |-> comparison_ticker,
      timeframe |-> timeframe, risk_profile |-> rp,
      output_format |-> output_format] :
        comparison_ticker \in {None, Str(<<"MSFT">>)},
        timeframe \in {"swing", "weekly"},
        rp \in {"moderate", "conservative", "reckless"},
        output_format \in {"signal", "report", "csv"}}

\* What the router and the model give a research tool.
ToolBars == {<<>>, <<OHLCVBar(1, Float(100)), OHLCVBar(2, Float(90))>>}

ToolFundamentals ==
    {None, FundamentalsData(FundamentalFields, <<>>),
     FundamentalsData(FundamentalFields, SubSeq(History(8, 1, -8), 3, 6))}

\* One call of analyze_stock: the arguments, and what the router and the
\* model answer during the call.
AnalyzeStock ==
    /\ tool_call = None
    /\ \E args \in ResearchArgs : \E bars \in ToolBars :
         \E fundamentals \in ToolFundamentals : \E reply \in Replies :
             /\ args.comparison_ticker = None
             /\ tool_call' = [tool |-> "analyze_stock", args |-> args,
                              bars |-> bars, fundamentals |-> fundamentals,
                              reply |-> reply]
             /\ tool_result' \in analyze_stock(args, bars, fundamentals, reply)
    /\ UNCHANGED outsideTools

\* One call of stock_research_report. The peer's fundamentals are fetched
\* only for a request with a comparison ticker.
StockResearchReport ==
    /\ tool_call = None
    /\ \E args \in ResearchArgs : \E bars \in ToolBars :
         \E fundamentals \in ToolFundamentals :
             \E peer_fundamentals \in PeerFundamentals : \E reply \in Replies :
                 /\ args.comparison_ticker = None => peer_fundamentals = None
                 /\ tool_call' = [tool |-> "stock_research_report",
                                  args |-> args, bars |-> bars,
                                  fundamentals |-> fundamentals,
                                  peer_fundamentals |-> peer_fundamentals,
                                  reply |-> reply]
                 /\ tool_result' \in stock_research_report(
                        args, bars, fundamentals, peer_fundamentals, reply)
    /\ UNCHANGED outsideTools

----------------------------------------------------------------------------
(* The trading tools: get_stock_price and the two formatters *)

\* A PriceData; the tool reads its ticker and its price.
PriceData(ticker, price, source) ==
    [tag |-> "object", cls |-> "PriceData", ticker |-> ticker, price |-> price,
     source |-> source]

\* str.upper() on the tickers used here.
upper(ticker) ==
    CASE ticker = "aapl" -> "AAPL"
      [] ticker = "Msft" -> "MSFT"
      [] OTHER -> ticker

\* f"{value:.2f}" of a float of whole hundredths: the digits before the
\* point, the point, two digits after it.
Format2f(value) ==
    <<IF value.h < 0 THEN "-" ELSE "", Abs(value.h) \div 100, ".",
      (Abs(value.h) % 100) \div 10, Abs(value.h) % 10>>

\* Variant: the warning line before the source line.
_format_success_warning_first(text, routed) ==
    LET warning == IF routed.fallback_warning # None
                      /\ routed.fallback_warning.text # <<>>
                   THEN <<"\nwarning: ">> \o routed.fallback_warning.text
                   ELSE <<>>
        source == IF routed.source # None /\ routed.source.text # <<>>
                  THEN <<"\nsource: ">> \o routed.source.text ELSE <<>>
    IN  Str(text \o warning \o source)

\* _format_success, lines 284-287: None and "" are false.
_format_success(text, routed) ==
    LET warning == IF routed.fallback_warning # None
                      /\ routed.fallback_warning.text # <<>>
                   THEN <<"\nwarning: ">> \o routed.fallback_warning.text
                   ELSE <<>>
        source == IF routed.source # None /\ routed.source.text # <<>>
                  THEN <<"\nsource: ">> \o routed.source.text ELSE <<>>
    IN  Str(text \o source \o warning)

\* _format_missing, lines 290-292.
_format_missing(tool_name, ticker, warning) ==
    LET details == IF warning # None /\ warning.text # <<>> THEN warning.text
                   ELSE <<"No provider returned data.">>
    IN  Str(<<tool_name, " unavailable for ", upper(ticker), ". ">> \o details)

\* get_stock_price, lines 61-73, once router.get_price_routed(ticker.upper())
\* has returned `routed`. A PriceData is an object, hence true.
get_stock_price(ticker, routed) ==
    IF routed.data = None
    THEN _format_missing("get_stock_price", ticker, routed.fallback_warning)
    ELSE _format_success(
             IF routed.data.price # None
             THEN <<routed.data.ticker, ": $">> \o Format2f(routed.data.price)
             ELSE <<routed.data.ticker, ": price unavailable">>,
             routed)

\* Prices a provider reports, and none.
Prices == {None, Float(19612), Float(5), Float(0)}

\* What get_price_routed returns for the upper-cased ticker: every shape
\* _with_fallback_routed builds, and the bare RoutedData(data=None) of the
\* fake router of tests/test_trading_tools.py.
RoutedPrices(ticker) ==
    {PrimarySuccess(PriceData(upper(ticker), price, router.primary)) :
        price \in Prices}
    \cup {SecondarySuccess(PriceData(upper(ticker), price, router.secondary),
                           reason) :
            price \in Prices,
            reason \in {NoDataReason} \cup {RequestFailedReason(d) : d \in ErrorDetails}}
    \cup {RoutedData(None, NoProviderWarning("get_price"), None)}
    \cup {RoutedData(None, BothFailedWarning("get_price", reason, d), None) :
            reason \in {NoDataReason} \cup {RequestFailedReason(d2) : d2 \in ErrorDetails},
            d \in ErrorDetails}
    \cup {RoutedData(None, None, None)}

GetStockPrice ==
    /\ tool_call = None
    /\ \E ticker \in {"aapl", "AAPL", "Msft"} :
         \E routed \in RoutedPrices(ticker) :
             /\ tool_call' = [tool |-> "get_stock_price", ticker |-> ticker,
                              routed |-> routed]
             /\ tool_result' = ToolReturns(get_stock_price(ticker, routed),
                                           <<"get_price_routed">>)
    /\ UNCHANGED outsideTools

----------------------------------------------------------------------------
(* Start-up: the transport resolution of main.py *)

\* Variant: the configured mode taken as it is, hosted or not.
resolve_transport_mode_as_configured(configured_mode) ==
    LET render == environ.RENDER # None /\ environ.RENDER.text # <<>>
        port == environ.PORT # None /\ environ.PORT.text # <<>>
    IN  IF configured_mode \in {"stdio", "http"} THEN configured_mode
        ELSE IF render \/ port THEN "http"
        ELSE "stdio"

\* resolve_transport_mode, lines 24-35. os.getenv gives None for a variable
\* that is not set and the value, possibly "", for one that is; the value is
\* tested for truth.
resolve_transport_mode(configured_mode) ==
    LET render == environ.RENDER # None /\ environ.RENDER.text # <<>>
        port == environ.PORT # None /\ environ.PORT.text # <<>>
    IN  IF render /\ configured_mode = "stdio" THEN "http"
        ELSE IF configured_mode \in {"stdio", "http"} THEN configured_mode
        ELSE IF render \/ port THEN "http"
        ELSE "stdio"

\* resolve_http_transport, lines 38-43.
resolve_http_transport(configured_transport) ==
    IF configured_transport \in {"sse", "streamable"} THEN configured_transport
    ELSE "sse"

\* An environment variable: not set, set to nothing, set to a value.
EnvValues(value) == {None, Str(<<>>), Str(<<value>>)}

\* Lines 74-75 of run().
Resolve ==
    /\ server.at = "configured"
    /\ server' = [at |-> "resolved",
                  resolved_mode |-> resolve_transport_mode(settings.transport_mode),
                  resolved_http_transport |->
                      resolve_http_transport(settings.http_transport),
                  running |-> "-"]
    /\ UNCHANGED <<environ, settings, outsideStartup>>

\* Lines 80-86 of run(): the transport that is started.
Serve ==
    /\ server.at = "resolved"
    /\ server' = [server EXCEPT
                    !.at = "serving",
                    !.running = IF server.resolved_mode = "stdio" THEN "stdio"
                                ELSE IF server.resolved_http_transport = "streamable"
                                THEN "streamable_http"
                                ELSE "sse"]
    /\ UNCHANGED <<environ, settings, outsideStartup>>

----------------------------------------------------------------------------
(* Specifications *)

\* main.py line 58: ProviderRouter(primary=alpha_provider, secondary=finnhub_provider)
RouterInit ==
    /\ router = [primary |-> "alpha_vantage", secondary |-> "finnhub"]
    /\ pc = [op \in Ops |-> "idle"]
    /\ method = [op \in Ops |-> "-"]
    /\ primary_reason = [op \in Ops |-> NoDataReason]
    /\ outcome = [op \in Ops |-> [primary |-> NotCalled, secondary |-> NotCalled]]
    /\ calls = [op \in Ops |-> <<>>]
    /\ result = [op \in Ops |-> Pending]
    /\ metrics = None
    /\ weights = None
    /\ scorecard = None
    /\ spc = "off"
    /\ risk_profile = None
    /\ signal = None
    /\ indicator_call = None
    /\ indicator_result = None
    /\ metric_call = None
    /\ metric_result = None
    /\ analysis_call = None
    /\ analysis_result = None
    /\ tool_call = None
    /\ tool_result = None
    /\ environ = None
    /\ settings = None
    /\ server = None

RouterNext ==
    \E op \in Ops :
        \/ \E m \in Methods : Invoke(op, m)
        \/ \E v \in ProviderResults(router.primary, method[op]) :
               PrimaryReturns(op, v)
        \/ \E d \in ErrorDetails : PrimaryRaises(op, d)
        \/ \E v \in ProviderResults(router.secondary, method[op]) :
               SecondaryReturns(op, v)
        \/ \E d \in ErrorDetails : SecondaryRaises(op, d)
        \/ Cancel(op)
        \/ GetCandlesRouted(op)

SpecRouter == RouterInit /\ [][RouterNext]_vars

ScoreInit ==
    /\ metrics = EmptyMetrics
    /\ weights = None
    /\ scorecard = None
    /\ spc = "input"
    /\ router = [primary |-> "alpha_vantage", secondary |-> "finnhub"]
    /\ pc = [op \in Ops |-> "idle"]
    /\ method = [op \in Ops |-> "-"]
    /\ primary_reason = [op \in Ops |-> NoDataReason]
    /\ outcome = [op \in Ops |-> [primary |-> NotCalled, secondary |-> NotCalled]]
    /\ calls = [op \in Ops |-> <<>>]
    /\ result = [op \in Ops |-> Pending]
    /\ risk_profile = None
    /\ signal = None
    /\ indicator_call = None
    /\ indicator_result = None
    /\ metric_call = None
    /\ metric_result = None
    /\ analysis_call = None
    /\ analysis_result = None
    /\ tool_call = None
    /\ tool_result = None
    /\ environ = None
    /\ settings = None
    /\ server = None

ScoreNext ==
    \/ \E f \in ScoredFields : \E v \in MetricValues(f) : SetMetric(f, v)
    \/ \E w \in WeightChoices : CompositeScore(w)

SpecScore == ScoreInit /\ [][ScoreNext]_vars

SignalInit ==
    /\ scorecard \in {UniformScorecard(c) : c \in 0..MaxComposite}
    /\ risk_profile = None
    /\ signal = None
    /\ indicator_call = None
    /\ indicator_result = None
    /\ metric_call = None
    /\ metric_result = None
    /\ analysis_call = None
    /\ analysis_result = None
    /\ tool_call = None
    /\ tool_result = None
    /\ environ = None
    /\ settings = None
    /\ server = None
    /\ metrics = None
    /\ weights = None
    /\ spc = "off"
    /\ router = [primary |-> "alpha_vantage", secondary |-> "finnhub"]
    /\ pc = [op \in Ops |-> "idle"]
    /\ method = [op \in Ops |-> "-"]
    /\ primary_reason = [op \in Ops |-> NoDataReason]
    /\ outcome = [op \in Ops |-> [primary |-> NotCalled, secondary |-> NotCalled]]
    /\ calls = [op \in Ops |-> <<>>]
    /\ result = [op \in Ops |-> Pending]

SignalNext == \E rp \in RiskProfiles : GenerateSignal(rp)

SpecSignal == SignalInit /\ [][SignalNext]_vars

IndicatorsInit ==
    /\ indicator_call = None
    /\ indicator_result = None
    /\ metric_call = None
    /\ metric_result = None
    /\ analysis_call = None
    /\ analysis_result = None
    /\ tool_call = None
    /\ tool_result = None
    /\ environ = None
    /\ settings = None
    /\ server = None
    /\ risk_profile = None
    /\ signal = None
    /\ metrics = None
    /\ weights = None
    /\ scorecard = None
    /\ spc = "off"
    /\ router = [primary |-> "alpha_vantage", secondary |-> "finnhub"]
    /\ pc = [op \in Ops |-> "idle"]
    /\ method = [op \in Ops |-> "-"]
    /\ primary_reason = [op \in Ops |-> NoDataReason]
    /\ outcome = [op \in Ops |-> [primary |-> NotCalled, secondary |-> NotCalled]]
    /\ calls = [op \in Ops |-> <<>>]
    /\ result = [op \in Ops |-> Pending]

IndicatorsNext ==
    \/ \E values \in FlatThenMove : \E period \in EmaPeriods :
           CalculateEma(values, period)
    \/ \E values \in FlatThenMove \cup Ramps : \E period \in RsiPeriods :
           CalculateRsi(values, period)
    \/ \E values \in FlatThenMove : CalculateMacd(values)

SpecIndicators == IndicatorsInit /\ [][IndicatorsNext]_vars

MetricsInit ==
    /\ metric_call = None
    /\ metric_result = None
    /\ analysis_call = None
    /\ analysis_result = None
    /\ tool_call = None
    /\ tool_result = None
    /\ environ = None
    /\ settings = None
    /\ server = None
    /\ indicator_call = None
    /\ indicator_result = None
    /\ risk_profile = None
    /\ signal = None
    /\ metrics = None
    /\ weights = None
    /\ scorecard = None
    /\ spc = "off"
    /\ router = [primary |-> "alpha_vantage", secondary |-> "finnhub"]
    /\ pc = [op \in Ops |-> "idle"]
    /\ method = [op \in Ops |-> "-"]
    /\ primary_reason = [op \in Ops |-> NoDataReason]
    /\ outcome = [op \in Ops |-> [primary |-> NotCalled, secondary |-> NotCalled]]
    /\ calls = [op \in Ops |-> <<>>]
    /\ result = [op \in Ops |-> Pending]

MetricsNext ==
    \/ \E bars \in SmallBars \cup {TestBars} : DrawdownRisk(bars)
    \/ \E bars \in SmallBars \cup {TestBars} : VolatilityProxy(bars)
    \/ \E values \in RevenueHistories : \E years \in {3, 5} :
           SafeCagr(values, years)
    \/ \E fundamentals \in FundamentalsChoices : \E bars \in BarsChoices :
           ComputeMetrics(fundamentals, bars)
    \/ \E bars \in DatedBars : ComputeTechnicalsFromBars(bars)

SpecMetrics == MetricsInit /\ [][MetricsNext]_vars

AnalysisInit ==
    /\ metric_call = None
    /\ metric_result = None
    /\ analysis_call = None
    /\ analysis_result = None
    /\ tool_call = None
    /\ tool_result = None
    /\ environ = None
    /\ settings = None
    /\ server = None
    /\ indicator_call = None
    /\ indicator_result = None
    /\ risk_profile = None
    /\ signal = None
    /\ metrics = None
    /\ weights = None
    /\ scorecard = None
    /\ spc = "off"
    /\ router = [primary |-> "alpha_vantage", secondary |-> "finnhub"]
    /\ pc = [op \in Ops |-> "idle"]
    /\ method = [op \in Ops |-> "-"]
    /\ primary_reason = [op \in Ops |-> NoDataReason]
    /\ outcome = [op \in Ops |-> [primary |-> NotCalled, secondary |-> NotCalled]]
    /\ calls = [op \in Ops |-> <<>>]
    /\ result = [op \in Ops |-> Pending]

AnalysisNext ==
    \E request \in Requests : \E bars \in AnalysisBars :
        \E fundamentals \in AnalysisFundamentals :
            \E peer_fundamentals \in PeerFundamentals : \E reply \in Replies :
                RunFullAnalysis(request, bars, fundamentals, peer_fundamentals,
                                reply)

SpecAnalysis == AnalysisInit /\ [][AnalysisNext]_vars

ResearchInit ==
    /\ metric_call = None
    /\ metric_result = None
    /\ analysis_call = None
    /\ analysis_result = None
    /\ tool_call = None
    /\ tool_result = None
    /\ environ = None
    /\ settings = None
    /\ server = None
    /\ indicator_call = None
    /\ indicator_result = None
    /\ risk_profile = None
    /\ signal = None
    /\ metrics = None
    /\ weights = None
    /\ scorecard = None
    /\ spc = "off"
    /\ router = [primary |-> "alpha_vantage", secondary |-> "finnhub"]
    /\ pc = [op \in Ops |-> "idle"]
    /\ method = [op \in Ops |-> "-"]
    /\ primary_reason = [op \in Ops |-> NoDataReason]
    /\ outcome = [op \in Ops |-> [primary |-> NotCalled, secondary |-> NotCalled]]
    /\ calls = [op \in Ops |-> <<>>]
    /\ result = [op \in Ops |-> Pending]

ResearchNext ==
    \/ AnalyzeStock
    \/ StockResearchReport
    \/ GetStockPrice

SpecResearch == ResearchInit /\ [][ResearchNext]_vars

StartupInit ==
    /\ metric_call = None
    /\ metric_result = None
    /\ analysis_call = None
    /\ analysis_result = None
    /\ tool_call = None
    /\ tool_result = None
    /\ environ \in [RENDER : EnvValues("true"), PORT : EnvValues("8000")]
    /\ settings \in [transport_mode : {"auto", "stdio", "http", "unknown"},
                      http_transport : {"sse", "streamable", "unknown"}]
    /\ server = [at |-> "configured", resolved_mode |-> "-",
                 resolved_http_transport |-> "-", running |-> "-"]
    /\ indicator_call = None
    /\ indicator_result = None
    /\ risk_profile = None
    /\ signal = None
    /\ metrics = None
    /\ weights = None
    /\ scorecard = None
    /\ spc = "off"
    /\ router = [primary |-> "alpha_vantage", secondary |-> "finnhub"]
    /\ pc = [op \in Ops |-> "idle"]
    /\ method = [op \in Ops |-> "-"]
    /\ primary_reason = [op \in Ops |-> NoDataReason]
    /\ outcome = [op \in Ops |-> [primary |-> NotCalled, secondary |-> NotCalled]]
    /\ calls = [op \in Ops |-> <<>>]
    /\ result = [op \in Ops |-> Pending]

StartupNext ==
    \/ Resolve
    \/ Serve

SpecStartup == StartupInit /\ [][StartupNext]_vars

----------------------------------------------------------------------------
(* Vocabulary of the properties *)

\* Empty or absent, as a result of a provider: None, [] or {}.
IsEmptyResult(v) == v = None \/ (v.tag \in {"list", "dict"} /\ v.size = 0)

\* Structurally empty: no item and no data field carries a value.
HasData(v) == v.tag # "None" /\ v.present > 0

PrimaryGaveData(op) ==
    /\ outcome[op].primary.kind = "return"
    /\ ~IsEmptyResult(outcome[op].primary.value)

PrimaryGaveNothing(op) ==
    \/ outcome[op].primary.kind = "raise"
    \/ /\ outcome[op].primary.kind = "return"
       /\ IsEmptyResult(outcome[op].primary.value)

SecondaryGaveData(op) ==
    /\ outcome[op].secondary.kind = "return"
    /\ ~IsEmptyResult(outcome[op].secondary.value)

SecondaryGaveNothing(op) ==
    \/ outcome[op].secondary.kind = "raise"
    \/ /\ outcome[op].secondary.kind = "return"
       /\ IsEmptyResult(outcome[op].secondary.value)

WasCancelled(op) ==
    outcome[op].primary = Cancelled \/ outcome[op].secondary = Cancelled

\* The reason the primary's outcome calls for.
ExpectedReason(op) ==
    IF outcome[op].primary.kind = "raise"
    THEN <<"request failed (", outcome[op].primary.detail, ")">>
    ELSE <<"no data returned">>

Mentions(text, piece) == \E i \in 1..Len(text) : text[i] = piece

ContainsSeq(text, part) ==
    \E i \in 0..(Len(text) - Len(part)) : SubSeq(text, i + 1, i + Len(part)) = part

\* What one routed operation returns when it runs alone against the given
\* provider outcomes.
RunAlone(m, out) ==
    LET p == out.primary
        s == out.secondary
        reason == IF p.kind = "raise" THEN RequestFailedReason(p.detail)
                  ELSE NoDataReason
    IN  IF p = Cancelled \/ s = Cancelled THEN Propagated("CancelledError")
        ELSE IF p.kind = "return" /\ Truthy(p.value) THEN PrimarySuccess(p.value)
        ELSE IF s.kind = "return" /\ Truthy(s.value)
             THEN SecondarySuccess(s.value, reason)
        ELSE IF s.kind = "raise"
             THEN RoutedData(None, BothFailedWarning(m, reason, s.detail), None)
        ELSE RoutedData(None, NoProviderWarning(m), None)

SubScores == {"value", "growth", "quality", "momentum", "risk"}

\* The metrics each sub-score averages, with the interpolation and the
\* thresholds (hundredths) applied to each.
Inputs(k) ==
    CASE k = "value" ->
           <<[f |-> "pe", inverse |-> TRUE, lo |-> 1200, hi |-> 4500],
             [f |-> "ps", inverse |-> TRUE, lo |-> 150, hi |-> 1500],
             [f |-> "ev_ebitda", inverse |-> TRUE, lo |-> 800, hi |-> 4000]>>
      [] k = "growth" ->
           <<[f |-> "revenue_yoy", inverse |-> FALSE, lo |-> -500, hi |-> 3000],
             [f |-> "eps_yoy", inverse |-> FALSE, lo |-> -1000, hi |-> 3500],
             [f |-> "forward_eps_growth", inverse |-> FALSE, lo |-> 0, hi |-> 2500],
             [f |-> "revenue_cagr_3y", inverse |-> FALSE, lo |-> 0, hi |-> 2000]>>
      [] k = "quality" ->
           <<[f |-> "net_margin", inverse |-> FALSE, lo |-> 5, hi |-> 25],
             [f |-> "roe", inverse |-> FALSE, lo |-> 5, hi |-> 30],
             [f |-> "debt_equity", inverse |-> TRUE, lo |-> 30, hi |-> 200]>>
      [] k = "momentum" ->
           <<[f |-> "drawdown_risk", inverse |-> TRUE, lo |-> 1000, hi |-> 6000],
             [f |-> "volatility_proxy", inverse |-> TRUE, lo |-> 150, hi |-> 700]>>
      [] k = "risk" ->
           <<[f |-> "beta", inverse |-> TRUE, lo |-> 80, hi |-> 200],
             [f |-> "drawdown_risk", inverse |-> TRUE, lo |-> 1000, hi |-> 7000],
             [f |-> "debt_equity", inverse |-> TRUE, lo |-> 40, hi |-> 250]>>

\* The points a present metric earns: 0 or 100 beyond the thresholds, the
\* linear interpolation between them.
PresentPoints(i, v) ==
    LET t == IF i.inverse THEN i.hi - v ELSE v - i.lo
    IN  IF t <= 0 THEN <<0, 1>>
        ELSE IF t >= i.hi - i.lo THEN <<100, 1>>
        ELSE Frac(100 * t, i.hi - i.lo)

\* The mean of sub-score k over table m when every absent input counts 50.
RECURSIVE SumWithAbsentAs50(_, _, _)
SumWithAbsentAs50(k, m, n) ==
    IF n = 0 THEN <<0, 1>>
    ELSE LET i == Inputs(k)[n]
         IN  FracAdd(SumWithAbsentAs50(k, m, n - 1),
                     IF m[i.f] = None THEN <<50, 1>>
                     ELSE PresentPoints(i, m[i.f].h))

MeanWithAbsentAs50(k, m) ==
    LET n == Len(Inputs(k))
        total == SumWithAbsentAs50(k, m, n)
    IN  Round2(Frac(total[1], total[2] * n))

----------------------------------------------------------------------------
(* Properties of the router *)

\* C1: when the primary returns a non-empty result, the RoutedData carries
\* that result, the primary's name as source and no fallback warning, and the
\* secondary's method is never invoked.
C1_PrimaryNonEmptyWins ==
    \A op \in Ops :
        PrimaryGaveData(op) =>
            /\ result[op] = [kind |-> "returned",
                             data |-> outcome[op].primary.value,
                             fallback_warning |-> None,
                             source |-> Str(<<router.primary>>)]
            /\ calls[op] = <<"primary">>
            /\ outcome[op].secondary = NotCalled

C1_Witness ==
    \E op \in Ops :
        /\ PrimaryGaveData(op)
        /\ HasData(outcome[op].primary.value)
        /\ result[op].kind = "returned"

\* C2: whatever the two providers do (return data, return empty, raise an
\* exception), a finished routed operation has returned a RoutedData; no
\* provider exception reaches the caller.
C2_ExceptionsNeverPropagate ==
    \A op \in Ops :
        (pc[op] = "done" /\ ~WasCancelled(op)) => result[op].kind = "returned"

C2_Witness ==
    \E op \in Ops :
        /\ outcome[op].primary.kind = "raise"
        /\ outcome[op].secondary.kind = "raise"
        /\ result[op].kind = "returned"

\* C3: when the primary returns empty/absent or raises and the secondary then
\* returns a non-empty result, the RoutedData carries the secondary's result,
\* the secondary's name as source and the warning "Primary provider
\* (<primary>) <reason>; using fallback provider (<secondary>)." with the
\* reason "no data returned" or "request failed (<detail>)".
C3_FallbackToSecondary ==
    \A op \in Ops :
        (PrimaryGaveNothing(op) /\ SecondaryGaveData(op)) =>
            result[op] =
                [kind |-> "returned",
                 data |-> outcome[op].secondary.value,
                 fallback_warning |->
                     Str(<<"Primary provider (", router.primary, ") ">>
                         \o ExpectedReason(op)
                         \o <<"; using fallback provider (", router.secondary,
                              ").">>),
                 source |-> Str(<<router.secondary>>)]

C3_Witness ==
    \E op \in Ops :
        /\ outcome[op].primary.kind = "raise"
        /\ SecondaryGaveData(op)
        /\ result[op].kind = "returned"
        /\ result[op].source = Str(<<"finnhub">>)
        /\ Mentions(result[op].fallback_warning.text, "alpha_vantage")
        /\ Mentions(result[op].fallback_warning.text, "finnhub")

\* C4: when neither provider yields data, the RoutedData has no payload and
\* no source, and its diagnostic names both providers and carries a reason
\* for each: the primary's recorded reason, and the secondary's failure
\* detail or "no data returned".
C4_ExhaustionCarriesBothReasons ==
    \A op \in Ops :
        (PrimaryGaveNothing(op) /\ SecondaryGaveNothing(op)) =>
            /\ result[op].kind = "returned"
            /\ result[op].data = None
            /\ result[op].source = None
            /\ result[op].fallback_warning.tag = "str"
            /\ LET text == result[op].fallback_warning.text
               IN  /\ Mentions(text, router.primary)
                   /\ Mentions(text, router.secondary)
                   /\ ContainsSeq(text, ExpectedReason(op))
                   /\ IF outcome[op].secondary.kind = "raise"
                      THEN Mentions(text, outcome[op].secondary.detail)
                      ELSE Mentions(text, "no data returned")

\* C5: a primary result that is structurally valid but empty (an empty list,
\* a record or dictionary whose data fields are all absent) makes the router
\* invoke the secondary, and is never returned as the payload.
C5_EmptyRecordFallsBack ==
    \A op \in Ops :
        (/\ outcome[op].primary.kind = "return"
         /\ ~HasData(outcome[op].primary.value)) =>
            /\ Len(calls[op]) = 2
            /\ result[op].kind = "returned" =>
                   result[op].data # outcome[op].primary.value

C7_SequentialAttempts ==
    \A op \in Ops :
        /\ calls[op] \in {<<>>, <<"primary">>, <<"primary", "secondary">>}
        /\ (pc[op] # "idle") <=> (calls[op] # <<>>)
        /\ (pc[op] = "await_primary") => (calls[op] = <<"primary">>)
        /\ (Len(calls[op]) = 2) => (outcome[op].primary # NotCalled)
        /\ (Len(calls[op]) = 2) <=> PrimaryGaveNothing(op)

C7_Witness ==
    \E op \in Ops :
        /\ pc[op] = "await_secondary"
        /\ calls[op] = <<"primary", "secondary">>
        /\ outcome[op].primary.kind = "return"
        /\ IsEmptyResult(outcome[op].primary.value)

\* C8: under every interleaving of the routed operations running on one
\* router, each finished operation has the result it has when run alone
\* against the same provider outcomes, and the router's fields are as
\* constructed.
C8_ConcurrentOpsIndependent ==
    /\ router = [primary |-> "alpha_vantage", secondary |-> "finnhub"]
    /\ \A op \in Ops :
           pc[op] = "done" => result[op] = RunAlone(method[op], outcome[op])

C8_Witness ==
    \E a, b \in Ops :
        /\ a # b
        /\ pc[a] = "done"
        /\ outcome[a].primary.kind = "raise"
        /\ SecondaryGaveData(a)
        /\ pc[b] = "await_secondary"
        /\ outcome[b].primary.kind = "return"
        /\ method[a] = method[b]

\* The RoutedData an operation got from _with_fallback_routed has its
\* payload and its source together or neither, no warning from the primary,
\* a warning from the secondary and a warning when there is no payload.
WellFormedRouted(op) ==
    (pc[op] = "done" /\ result[op].kind = "returned") =>
        LET routed == result[op]
        IN  /\ routed.data.tag = "None" <=> routed.source.tag = "None"
            /\ routed.source = [tag |-> "str", text |-> <<"alpha_vantage">>] =>
                   routed.fallback_warning.tag = "None"
            /\ routed.source = [tag |-> "str", text |-> <<"finnhub">>] =>
                   routed.fallback_warning.tag = "str"
            /\ routed.data.tag = "None" => routed.fallback_warning.tag = "str"

\* The step of get_candles_routed keeps source and warning and puts an empty
\* list in place of an absent payload only.
CandlesStepKeepsMetadata(op) ==
    (pc[op] = "done" /\ pc'[op] = "wrapped") =>
        /\ result'[op].source = result[op].source
        /\ result'[op].fallback_warning = result[op].fallback_warning
        /\ result'[op].data.tag = "list"
        /\ result[op].data.tag = "None" => result'[op].data.size = 0
        /\ result[op].data.tag # "None" => result'[op].data = result[op].data

\* C27: every RoutedData returned by _with_fallback_routed has data absent
\* iff source absent, no fallback warning when the source is the primary, a
\* fallback warning when the source is the secondary and a fallback warning
\* when data is absent; get_candles_routed keeps source and fallback warning
\* unchanged and only replaces an absent payload by an empty list.
C27_RoutedDataShape ==
    /\ [](\A op \in Ops : WellFormedRouted(op))
    /\ [][\A op \in Ops : CandlesStepKeepsMetadata(op)]_vars

\* get_candles_routed returned an empty list with the diagnostic of two
\* providers that had nothing.
C27_Witness ==
    \E op \in Ops :
        /\ pc[op] = "wrapped"
        /\ result[op].data.tag = "list"
        /\ result[op].data.size = 0
        /\ result[op].source.tag = "None"
        /\ result[op].fallback_warning.text =
               <<"No provider returned data for ", "get_candles", " (",
                 "alpha_vantage", " then ", "finnhub", ").">>

----------------------------------------------------------------------------
(* Properties of the scoring engine *)

\* C9: for every MetricsTable, fields absent or any number, each of the five
\* sub-scores lies in [0,100].
C9_SubScoresInRange ==
    spc = "scored" =>
        \A k \in SubScores : 0 <= scorecard[k] /\ scorecard[k] <= 10000

C9_Witness ==
    /\ spc = "scored"
    /\ metrics.drawdown_risk = Float(-FarOut)
    /\ metrics.volatility_proxy = Float(-FarOut)
    /\ metrics.pe = Float(FarOut)
    /\ scorecard.momentum = 10000
    /\ scorecard.value = 3333

\* C10: for every MetricsTable and all weights the settings accept (each in
\* [0,1]), the composite lies in [0,100].
C10_CompositeInRange ==
    spc = "scored" => (0 <= scorecard.composite /\ scorecard.composite <= 10000)

\* C11: in every sub-score an absent metric contributes exactly 50 to the
\* mean, whatever the other metrics are; a table with every field absent
\* yields five sub-scores of 50.
C11_AbsentContributesFifty ==
    spc = "scored" =>
        /\ \A k \in SubScores : scorecard[k] = MeanWithAbsentAs50(k, metrics)
        /\ metrics = [f \in MetricFields |-> None] =>
               \A k \in SubScores : scorecard[k] = 5000

C11_Witness ==
    /\ spc = "scored"
    /\ metrics.revenue_yoy = Float(FarOut)
    /\ metrics.eps_yoy = None
    /\ metrics.forward_eps_growth = None
    /\ metrics.revenue_cagr_3y = Float(-FarOut)
    /\ scorecard.growth = 5000
    /\ scorecard.quality = 5000

\* The clamped linear interpolation of field f of the table, in points of
\* 0..100: `full` is the raw value (in hundredths) at and beyond which the
\* score is 100, `zero` the one at and beyond which it is 0; an absent field
\* is worth 50. Inverse shapes have full < zero, direct shapes zero < full.
Interpolated(f, zero, full) ==
    IF metrics[f].tag = "None" THEN <<50, 1>>
    ELSE LET v == metrics[f].h
             towards == IF zero < full THEN v - zero ELSE zero - v
             whole == IF zero < full THEN full - zero ELSE zero - full
         IN  IF towards <= 0 THEN <<0, 1>>
             ELSE IF towards >= whole THEN <<100, 1>>
             ELSE Frac(100 * towards, whole)

Inverse(f, good, bad) == Interpolated(f, bad, good)

Direct(f, bad, good) == Interpolated(f, bad, good)

\* The interpolations each sub-score is the mean of.
PartsOf ==
    [value |-> <<Inverse("pe", 1200, 4500), Inverse("ps", 150, 1500),
                 Inverse("ev_ebitda", 800, 4000)>>,
     growth |-> <<Direct("revenue_yoy", -500, 3000), Direct("eps_yoy", -1000, 3500),
                  Direct("forward_eps_growth", 0, 2500),
                  Direct("revenue_cagr_3y", 0, 2000)>>,
     quality |-> <<Direct("net_margin", 5, 25), Direct("roe", 5, 30),
                   Inverse("debt_equity", 30, 200)>>,
     momentum |-> <<Inverse("drawdown_risk", 1000, 6000),
                    Inverse("volatility_proxy", 150, 700)>>,
     risk |-> <<Inverse("beta", 80, 200), Inverse("drawdown_risk", 1000, 7000),
                Inverse("debt_equity", 40, 250)>>]

\* r hundredths is the mean of the parts rounded to 2 decimals: no multiple of
\* 0.01 is nearer to the mean.
IsRoundedMean(r, parts) ==
    LET total == sum(parts)
        count == Len(parts)
    IN  2 * Abs(r * total[2] * count - 100 * total[1]) <= total[2] * count

\* C24: each sub-score is the mean, rounded to 2 decimals, of its clamped
\* piecewise-linear interpolations: Value of inverse(P/E; 12, 45),
\* inverse(P/S; 1.5, 15), inverse(EV/EBITDA; 8, 40); Growth of direct(revenue
\* YoY; -5, 30), direct(EPS YoY; -10, 35), direct(forward EPS growth; 0, 25),
\* direct(3y CAGR; 0, 20); Quality of direct(net margin; 0.05, 0.25),
\* direct(ROE; 0.05, 0.3), inverse(debt/equity; 0.3, 2.0); Momentum of
\* inverse(drawdown; 10, 60), inverse(volatility; 1.5, 7.0); Risk of
\* inverse(beta; 0.8, 2.0), inverse(drawdown; 10, 70), inverse(debt/equity;
\* 0.4, 2.5).
C24_SubScoreFormulas ==
    spc = "scored" =>
        \A k \in {"value", "growth", "quality", "momentum", "risk"} :
            IsRoundedMean(scorecard[k], PartsOf[k])

\* P/E 20, ROE 0.28 and debt/equity 0.70 lie between their thresholds.
C24_Witness ==
    /\ spc = "scored"
    /\ metrics.pe = Float(2000)
    /\ metrics.roe = Float(28)
    /\ metrics.debt_equity = Float(70)
    /\ scorecard.value = 5859
    /\ scorecard.quality = 7282
    /\ scorecard.risk = 6190

----------------------------------------------------------------------------
(* Properties of the signal generator *)

\* The signals a call can have returned for the composite and the profile.
SignalsFor(c, rp) == {t.signal : t \in generate_signal(UniformScorecard(c), rp)}

\* C12: generate_signal is total: for every composite in [0,100] and every
\* risk profile it returns one signal and one confidence in [0,100]; the
\* signal is Buy iff composite >= buy threshold, Sell iff composite <= sell
\* threshold, Hold otherwise, with (buy, sell) = (65, 40) for aggressive,
\* (75, 50) for conservative, (70, 45) for moderate; Buy and Sell never
\* hold together.
C12_SignalTotalAndThresholded ==
    (signal # None /\ scorecard.composite <= 10000) =>
        LET c == scorecard.composite
            buy == CASE risk_profile = "aggressive" -> 6500
                     [] risk_profile = "conservative" -> 7500
                     [] risk_profile = "moderate" -> 7000
            sell == CASE risk_profile = "aggressive" -> 4000
                      [] risk_profile = "conservative" -> 5000
                      [] risk_profile = "moderate" -> 4500
        IN  /\ signal.signal \in {"Buy", "Sell", "Hold"}
            /\ Cardinality(SignalsFor(c, risk_profile)) = 1
            /\ 0 <= signal.confidence /\ signal.confidence <= 10000
            /\ signal.signal = "Buy" <=> c >= buy
            /\ signal.signal = "Sell" <=> c <= sell
            /\ signal.signal = "Hold" <=> (c < buy /\ c > sell)
            /\ ~(c >= buy /\ c <= sell)

C12_Witness ==
    /\ signal # None
    /\ risk_profile = "aggressive"
    /\ scorecard.composite = 6500
    /\ signal.signal = "Buy"

\* C13: the confidence is min(100, composite) for Buy, min(100, 100 -
\* composite) for Sell and 60 + |composite - (buy+sell)/2| / 2 for Hold, each
\* rounded to 2 decimals; composite 80 with moderate gives (Buy, 80.00),
\* composite 42 with moderate gives (Sell, 58.00), composite 60 with
\* aggressive gives (Hold, 63.75).
C13_ConfidenceFormula ==
    (signal # None /\ scorecard.composite <= 10000) =>
        LET c == scorecard.composite
            mid2 == CASE risk_profile = "aggressive" -> 6500 + 4000
                      [] risk_profile = "conservative" -> 7500 + 5000
                      [] risk_profile = "moderate" -> 7000 + 4500
            dist2 == IF 2 * c >= mid2 THEN 2 * c - mid2 ELSE mid2 - 2 * c
            off == 4 * signal.confidence - (24000 + dist2)
        IN  /\ signal.signal = "Buy" => signal.confidence = c
            /\ signal.signal = "Sell" => signal.confidence = 10000 - c
            /\ signal.signal = "Hold" => (-2 <= off /\ off <= 2)
            /\ (c = 8000 /\ risk_profile = "moderate") =>
                   (signal.signal = "Buy" /\ signal.confidence = 8000)
            /\ (c = 4200 /\ risk_profile = "moderate") =>
                   (signal.signal = "Sell" /\ signal.confidence = 5800)
            /\ (c = 6000 /\ risk_profile = "aggressive") =>
                   (signal.signal = "Hold" /\ signal.confidence = 6375)

C13_Witness ==
    /\ signal # None
    /\ scorecard.composite = 6000
    /\ risk_profile = "aggressive"
    /\ signal.signal = "Hold"
    /\ signal.confidence = 6375

\* Sell < Hold < Buy.
RankOf == [Sell |-> 1, Hold |-> 2, Buy |-> 3]

\* The signal is never lower than r for this composite and profile.
NeverBelow(r, c, rp) == \A sig \in SignalsFor(c, rp) : RankOf[sig] >= r

\* C29: generate_signal is monotone: for the profile of the call, the next
\* higher composite (one hundredth more) does not yield a lower signal than
\* the one returned; and for the composite of the call, the signal under
\* moderate is not lower than the one returned under conservative, nor the
\* signal under aggressive lower than the one returned under moderate.
C29_SignalMonotone ==
    signal # None =>
        LET c == scorecard.composite
            r == RankOf[signal.signal]
        IN  /\ NeverBelow(r, c + 1, risk_profile)
            /\ risk_profile = "conservative" => NeverBelow(r, c, "moderate")
            /\ risk_profile = "moderate" => NeverBelow(r, c, "aggressive")

\* At 70 the moderate profile says Buy: conservative says Hold there, and
\* every higher composite and the aggressive profile say Buy too.
C29_Witness ==
    /\ signal # None
    /\ scorecard.composite = 7000
    /\ risk_profile = "moderate"
    /\ signal.signal = "Buy"
    /\ SignalsFor(7000, "conservative") = {"Hold"}

----------------------------------------------------------------------------
(* Properties of the indicators *)

IsUnavailable(v) == v.tag = "None"

IsNumber(v) == v.tag = "float"

\* C14: calculate_ema returns unavailable exactly when len(values) < period,
\* calculate_rsi exactly when len(values) <= period, and calculate_macd
\* returns (unavailable, unavailable) when len(values) < 35; on a series
\* shorter than its minimum length none of them returns a number.
C14_UnavailableWhenTooShort ==
    indicator_call # None =>
        LET n == Len(indicator_call.values)
            out == indicator_result
        IN  CASE indicator_call.fn = "calculate_ema" ->
                   /\ IsUnavailable(out) <=> n < indicator_call.period
                   /\ n >= indicator_call.period => IsNumber(out)
              [] indicator_call.fn = "calculate_rsi" ->
                   /\ IsUnavailable(out) <=> n <= indicator_call.period
                   /\ n > indicator_call.period => IsNumber(out)
              [] indicator_call.fn = "calculate_macd" ->
                   n < 35 => (IsUnavailable(out.macd) /\ IsUnavailable(out.signal))

C14_Witness ==
    /\ indicator_call # None
    /\ indicator_call.fn = "calculate_ema"
    /\ Len(indicator_call.values) = 12
    /\ indicator_call.period = 12
    /\ IsNumber(indicator_result)

\* No close of the series is below the one before it.
NeverFalls(values) ==
    \A i \in 1..(Len(values) - 1) : ~FracLess(values[i + 1], values[i])

\* C15: calculate_rsi returns exactly 100 whenever the smoothed average loss
\* is zero, so for every monotonically increasing series of more than
\* `period` values it returns a number above 60, never a division error,
\* e.g. for the closes 1..39 with period 14.
C15_RsiOfRisingSeries ==
    (indicator_call # None /\ indicator_call.fn = "calculate_rsi") =>
        LET values == indicator_call.values
            out == indicator_result
        IN  /\ (Len(values) > indicator_call.period /\ NeverFalls(values)) =>
                   /\ out.tag = "float"
                   /\ out.q = <<100, 1>>
                   /\ out.q[1] > 60 * out.q[2]
            /\ (values = [i \in 1..39 |-> <<i, 1>>] /\ indicator_call.period = 14) =>
                   out = [tag |-> "float", q |-> <<100, 1>>]

C15_Witness ==
    /\ indicator_call # None
    /\ indicator_call.fn = "calculate_rsi"
    /\ indicator_call.period = 14
    /\ Len(indicator_call.values) = 39
    /\ \A i \in 1..39 : indicator_call.values[i] = <<i, 1>>
    /\ indicator_result = Number(<<100, 1>>)

\* C30: for every series of at least 35 values calculate_macd returns two
\* numbers: its MACD series has len(values) - 25 points, one for each prefix
\* of 26 values or more and so at least 10, hence never none; the MACD value
\* is the point of the whole series, EMA(12) - EMA(26), and the signal, the
\* EMA(9) of the MACD series, is available.
C30_MacdOfLongSeries ==
    (/\ indicator_call # None
     /\ indicator_call.fn = "calculate_macd"
     /\ Len(indicator_call.values) >= 35) =>
        LET values == indicator_call.values
            points == macd_loop(values, 1, <<>>)
        IN  /\ IsNumber(indicator_result.macd)
            /\ IsNumber(indicator_result.signal)
            /\ Len(points) = Len(values) - 25
            /\ Len(points) >= 10
            /\ indicator_result.macd.q = points[Len(points)]
            /\ indicator_result.macd.q =
                   FracSub(calculate_ema(values, 12).q, calculate_ema(values, 26).q)
            /\ indicator_result.signal = calculate_ema(points, 9)

\* Exactly 35 closes, the last one a move: ten MACD points, the signal is
\* their plain mean.
C30_Witness ==
    /\ indicator_call # None
    /\ indicator_call.fn = "calculate_macd"
    /\ Len(indicator_call.values) = 35
    /\ indicator_call.values[35] # indicator_call.values[34]
    /\ indicator_result.macd.tag = "float"
    /\ indicator_result.signal.tag = "float"
    /\ indicator_result.macd.q # <<0, 1>>

----------------------------------------------------------------------------
(* Properties of the metrics *)

\* The closes of the bars, earliest date first, in hundredths.
ClosesByDate(bars) ==
    [d \in 1..Len(bars) |-> (CHOOSE b \in {bars[i] : i \in 1..Len(bars)} : b.date = d).close.h]

\* C16 as stated: drawdown_risk on bars with date-ascending closes
\* [100,102,99,105,103,108,107] returns the peak-to-trough percentage of the
\* 105 -> 103 segment, (105-103)/105*100 = 40/21.
C16_DrawdownIs105To103 ==
    (metric_call # None /\ metric_call.fn = "drawdown_risk"
       /\ Len(metric_call.bars) = 7
       /\ ClosesByDate(metric_call.bars)
            = <<10000, 10200, 9900, 10500, 10300, 10800, 10700>>) =>
        metric_result = [tag |-> "float", q |-> <<40, 21>>]

\* C16, amended: on those bars drawdown_risk returns the deepest drawdown
\* below the running peak, the one of the 102 -> 99 segment,
\* (102-99)/102*100 = 50/17.
C16_DrawdownIs102To99 ==
    (metric_call # None /\ metric_call.fn = "drawdown_risk"
       /\ Len(metric_call.bars) = 7
       /\ ClosesByDate(metric_call.bars)
            = <<10000, 10200, 9900, 10500, 10300, 10800, 10700>>) =>
        metric_result = [tag |-> "float", q |-> <<50, 17>>]

C16_Witness ==
    /\ metric_call # None
    /\ metric_call.fn = "drawdown_risk"
    /\ Len(metric_call.bars) = 7
    /\ ClosesByDate(metric_call.bars)
         = <<10000, 10200, 9900, 10500, 10300, 10800, 10700>>
    /\ metric_result # None

\* C17: drawdown_risk returns a value >= 0 for every non-empty bar series,
\* exactly 0 for every series whose closes strictly increase in date order,
\* and unavailable only for an empty series.
C17_DrawdownNonNegative ==
    (metric_call # None /\ metric_call.fn = "drawdown_risk") =>
        LET bars == metric_call.bars
            by_date == ClosesByDate(bars)
            rising == \A d \in 1..(Len(bars) - 1) : by_date[d] < by_date[d + 1]
        IN  /\ metric_result.tag \in {"None", "float"}
            /\ metric_result.tag = "None" <=> Len(bars) = 0
            /\ metric_result.tag = "float" => AsFrac(metric_result)[1] >= 0
            /\ (Len(bars) > 0 /\ rising) =>
                   metric_result = [tag |-> "float", h |-> 0]

C17_Witness ==
    /\ metric_call # None
    /\ metric_call.fn = "drawdown_risk"
    /\ Len(metric_call.bars) = 3
    /\ ClosesByDate(metric_call.bars) = <<100, 200, 300>>
    /\ metric_call.bars[1].date = 3
    /\ metric_result = [tag |-> "float", h |-> 0]

\* C18: safe_cagr(series, years) returns a number exactly when len(series) >=
\* years+1 and the value `years` positions before the newest is strictly
\* positive, and unavailable in every other case; for every revenue series,
\* the newest value zero or negative included, it never fails with an error,
\* so compute_metrics never fails because of the revenue history.
C18_CagrNumberOrUnavailable ==
    /\ (metric_call # None /\ metric_call.fn = "safe_cagr") =>
           LET values == metric_call.values
               n == Len(values)
               qualifies == /\ n >= metric_call.years + 1
                            /\ values[n - metric_call.years].h > 0
           IN  /\ metric_result.tag \in {"float", "None"}
               /\ metric_result.tag = "float" <=> qualifies
    /\ (metric_call # None /\ metric_call.fn = "compute_metrics") =>
           "pe" \in DOMAIN metric_result

\* The fundamentals field each copied metrics field comes from.
CopiedFrom ==
    [revenue_yoy |-> "revenue_yoy", eps_yoy |-> "eps_yoy",
     forward_eps_growth |-> "forward_eps_growth",
     gross_margin |-> "gross_margin", operating_margin |-> "operating_margin",
     net_margin |-> "net_margin", roe |-> "roe", roic |-> "roe",
     debt_equity |-> "debt_to_equity", pe |-> "pe", forward_pe |-> "forward_pe",
     ps |-> "ps", ev_ebitda |-> "ev_ebitda", beta |-> "beta"]

\* C19: compute_metrics never turns an unknown into zero: without
\* fundamentals every field of the returned table is absent except
\* volatility_proxy and drawdown_risk, which come from the bars alone; with
\* fundamentals, every field copied from a fundamentals field is absent
\* exactly when that field is absent.
C19_UnknownStaysUnknown ==
    (metric_call # None /\ metric_call.fn = "compute_metrics"
       /\ "pe" \in DOMAIN metric_result) =>
        LET fundamentals == metric_call.fundamentals
            bars == metric_call.bars
            table == metric_result
        IN  /\ DOMAIN table = MetricFields
            /\ fundamentals.tag = "None" =>
                   /\ \A f \in MetricFields \ {"volatility_proxy", "drawdown_risk"} :
                          table[f] = [tag |-> "None"]
                   /\ table.volatility_proxy.tag = "None" <=> Len(bars) < 2
                   /\ table.drawdown_risk.tag = "None" <=> Len(bars) = 0
            /\ fundamentals.tag # "None" =>
                   \A f \in DOMAIN CopiedFrom :
                       /\ table[f].tag = "None" <=>
                              fundamentals[CopiedFrom[f]].tag = "None"
                       /\ table[f].tag # "None" =>
                              table[f] = fundamentals[CopiedFrom[f]]

C19_Witness ==
    /\ metric_call # None
    /\ metric_call.fn = "compute_metrics"
    /\ metric_call.fundamentals # None
    /\ metric_call.fundamentals.beta = None
    /\ metric_call.fundamentals.pe # None
    /\ "pe" \in DOMAIN metric_result
    /\ metric_result.beta = None
    /\ metric_result.pe = Float(2800)

\* The analysis ran to its end and returned a StockResearchResult.
Completed == analysis_result.tag = "StockResearchResult"

\* C20: whatever the router found or did not find (bars, fundamentals, the
\* peer's fundamentals) and whatever text the model replied with,
\* _run_full_analysis completes without error; its result carries a
\* scorecard with the six scores and a confidence, and the signal when the
\* signal format was asked for; and for a request with a comparison ticker
\* whose fundamentals, or either P/E, are absent, the peer note is
\* "Comparison requested but not enough normalized peer data.".
C20_AnalysisToleratesAbsences ==
    (analysis_call # None /\ analysis_call.reply # "raises") =>
        LET request == analysis_call.request
            ours == analysis_call.fundamentals
            peer == analysis_call.peer_fundamentals
        IN  /\ Completed
            /\ DOMAIN analysis_result.scorecard =
                   {"value", "growth", "quality", "momentum", "risk", "composite"}
            /\ analysis_result.confidence \in 0..10000
            /\ request.output_format = "signal" =>
                   analysis_result.signal_if_requested.text[1]
                       \in {"Buy", "Hold", "Sell"}
            /\ (/\ request.comparison_ticker.tag # "None"
                /\ \/ peer.tag = "None"
                   \/ ours.tag = "None"
                   \/ peer.pe.tag = "None"
                   \/ ours.pe.tag = "None") =>
                   analysis_result.peer_comparison.text =
                       <<"Comparison requested but not enough normalized peer data.">>

\* C21: a research tool called with a malformed argument, through analyze_stock
\* or stock_research_report, awaits no router method and returns the
\* structured validation error naming exactly the fields that were not
\* accepted; no exception leaves the tool.
C21_MalformedRequestRejected ==
    (/\ tool_call # None
     /\ tool_call.tool \in {"analyze_stock", "stock_research_report"}
     /\ \/ tool_call.args.timeframe \notin {"intraday", "swing", "longterm"}
        \/ tool_call.args.risk_profile \notin {"conservative", "moderate", "aggressive"}
        \/ tool_call.args.output_format \notin {"signal", "report"}) =>
        /\ tool_result.router_calls = <<>>
        /\ tool_result.tag = "returned"
        /\ tool_result.value.error.code = "validation_error"
        /\ tool_result.value.error.details =
               {f \in {"timeframe", "risk_profile", "output_format"} :
                   tool_call.args[f] \in {"weekly", "reckless", "csv"}}

\* C22: build_sections always hands _run_full_analysis a sections record:
\* in every analysis that got as far as the narrative, no exception of the
\* narrative engine reaches the result, and whenever the model's reply was
\* not the requested JSON the narrative fields are the templated fallback
\* texts.
C22_NarrativeNeverFails ==
    (/\ analysis_call # None
     /\ analysis_result # [tag |-> "raised", exc |-> "ValueError"]) =>
        /\ analysis_result.tag = "StockResearchResult"
        /\ analysis_call.reply # "json" =>
               /\ analysis_result.executive_summary.text =
                      <<"Deterministic analysis for ",
                        analysis_call.request.ticker,
                        " generated without LLM narrative due to response format issue.">>
               /\ analysis_result.growth_analysis.text =
                      <<"Growth trends inferred from computed metrics only.">>
               /\ analysis_result.final_investment_view.text =
                      <<"Use scorecard and signal output for decision support.">>
               /\ Len(analysis_result.assumptions) = 1

\* C28: when the router has no bars and no fundamentals, the composite is
\* exactly 50, and the signal is Hold for the moderate and the aggressive
\* profile but Sell with confidence 50 for the conservative profile.
C28_NothingKnownSignal ==
    (/\ analysis_call # None
     /\ analysis_call.bars = <<>>
     /\ analysis_call.fundamentals.tag = "None"
     /\ analysis_result.tag = "StockResearchResult") =>
        /\ analysis_result.scorecard.composite = 5000
        /\ analysis_call.request.output_format = "signal" =>
               /\ analysis_call.request.risk_profile \in {"moderate", "aggressive"} =>
                      analysis_result.signal_if_requested.text = <<"Hold">>
               /\ analysis_call.request.risk_profile = "conservative" =>
                      /\ analysis_result.signal_if_requested.text = <<"Sell">>
                      /\ analysis_result.confidence = 5000

C28_Witness ==
    /\ analysis_call # None
    /\ analysis_call.bars = <<>>
    /\ analysis_call.fundamentals = None
    /\ analysis_call.request.risk_profile = "conservative"
    /\ analysis_call.request.output_format = "signal"
    /\ analysis_result.tag = "StockResearchResult"
    /\ analysis_result.signal_if_requested.tag = "str"
    /\ analysis_result.confidence = 5000


\* The bars earliest date first, whatever order they arrived in.
InDateOrder(bars) ==
    [d \in 1..Len(bars) |-> CHOOSE b \in {bars[i] : i \in 1..Len(bars)} : b.date = d]

\* C23: for bars of unique dates, compute_technicals_from_bars,
\* volatility_proxy and drawdown_risk return for every order of arrival what
\* they return for the same bars arriving earliest date first.
C23_ArrivalOrderIrrelevant ==
    (metric_call # None /\ "bars" \in DOMAIN metric_call
       /\ {metric_call.bars[i].date : i \in 1..Len(metric_call.bars)}
              = 1..Len(metric_call.bars)) =>
        metric_result =
            CASE metric_call.fn = "compute_technicals_from_bars" ->
                    compute_technicals_from_bars(InDateOrder(metric_call.bars),
                                                 "computed")
              [] metric_call.fn = "volatility_proxy" ->
                    volatility_proxy(InDateOrder(metric_call.bars))
              [] metric_call.fn = "drawdown_risk" ->
                    drawdown_risk(InDateOrder(metric_call.bars))
              [] OTHER -> metric_result

\* Thirty-five or more bars arrived latest first, and the snapshot has every
\* indicator short enough for them.
C23_Witness ==
    /\ metric_call # None
    /\ metric_call.fn = "compute_technicals_from_bars"
    /\ Len(metric_call.bars) >= 35
    /\ metric_call.bars[1].date > metric_call.bars[2].date
    /\ metric_result.rsi.tag # "None"
    /\ metric_result.macd.tag # "None"
    /\ metric_result.macd_signal.tag # "None"
    /\ metric_result.ema_20.tag # "None"
    /\ metric_result.ema_50.tag = "None"

----------------------------------------------------------------------------
(* Properties of the trading tools *)

\* A line of the reply: the label and the text, or nothing when the routed
\* result has no such text.
LineOf(label, text) == IF text.tag = "None" THEN <<>> ELSE <<label>> \o text.text

\* The ticker in capitals.
Capitals == [aapl |-> "AAPL", AAPL |-> "AAPL", Msft |-> "MSFT"]

\* C25: get_stock_price returns, on a routed result with a payload, the
\* formatted price followed by "source: <provider>" exactly when the result
\* has a source and by "warning: <diagnostic>" exactly when it has a fallback
\* warning; on a routed result without payload it returns "get_stock_price
\* unavailable for <TICKER>. " followed by the router's diagnostic, or by
\* "No provider returned data." when there is none; it never raises.
C25_ToolText ==
    (tool_call # None /\ tool_call.tool = "get_stock_price") =>
        LET routed == tool_call.routed
            text == tool_result.value.text
        IN  /\ tool_result.tag = "returned"
            /\ routed.data.tag # "None" =>
                   /\ text[1] = Capitals[tool_call.ticker]
                   /\ routed.data.price.tag = "None" =>
                          text = <<text[1], ": price unavailable">>
                                 \o LineOf("\nsource: ", routed.source)
                                 \o LineOf("\nwarning: ", routed.fallback_warning)
                   /\ routed.data.price.tag # "None" =>
                          /\ text[2] = ": $"
                          /\ 100 * text[4] + 10 * text[6] + text[7]
                                 = routed.data.price.h
                          /\ text[5] = "."
                          /\ SubSeq(text, 8, Len(text)) =
                                 LineOf("\nsource: ", routed.source)
                                 \o LineOf("\nwarning: ", routed.fallback_warning)
            /\ routed.data.tag = "None" =>
                   text = <<"get_stock_price", " unavailable for ",
                            Capitals[tool_call.ticker], ". ">>
                          \o (IF routed.fallback_warning.tag = "None"
                              THEN <<"No provider returned data.">>
                              ELSE routed.fallback_warning.text)

\* The case of tests/test_trading_tools.py: the secondary answered, so the
\* text carries the price, the source line and the warning line.
C25_Witness ==
    /\ tool_call # None
    /\ tool_call.tool = "get_stock_price"
    /\ tool_call.ticker = "aapl"
    /\ tool_result.value.text =
           <<"AAPL", ": $", "", 196, ".", 1, 2, "\nsource: ", "finnhub",
             "\nwarning: ", "Primary provider (", "alpha_vantage", ") ",
             "no data returned", "; using fallback provider (", "finnhub", ").">>

----------------------------------------------------------------------------
(* Properties of the start-up *)

IsSet(name) == environ[name].tag # "None"

IsSetToSomething(name) ==
    environ[name].tag # "None" /\ Len(environ[name].text) > 0

\* C26 as stated: resolve_transport_mode returns "http" whenever RENDER is
\* set and the configured mode is "stdio"; otherwise the configured mode when
\* it is "stdio" or "http"; otherwise "http" if RENDER or PORT is set and
\* "stdio" if neither is; resolve_http_transport returns the configured value
\* when it is "sse" or "streamable" and "sse" for every other value.
C26_TransportResolution ==
    server.at = "resolved" =>
        /\ server.resolved_mode =
               CASE IsSet("RENDER") /\ settings.transport_mode = "stdio" -> "http"
                 [] ~(IsSet("RENDER") /\ settings.transport_mode = "stdio")
                    /\ settings.transport_mode \in {"stdio", "http"} ->
                        settings.transport_mode
                 [] OTHER -> IF IsSet("RENDER") \/ IsSet("PORT")
                             THEN "http" ELSE "stdio"
        /\ server.resolved_http_transport =
               CASE settings.http_transport = "sse" -> "sse"
                 [] settings.http_transport = "streamable" -> "streamable"
                 [] OTHER -> "sse"

\* C26, amended: the same with "set" read as "set to a non-empty value"; a
\* variable set to the empty string counts as not set.
C26_TransportResolutionNonEmpty ==
    server.at = "resolved" =>
        /\ server.resolved_mode =
               CASE IsSetToSomething("RENDER") /\ settings.transport_mode = "stdio" ->
                        "http"
                 [] ~(IsSetToSomething("RENDER") /\ settings.transport_mode = "stdio")
                    /\ settings.transport_mode \in {"stdio", "http"} ->
                        settings.transport_mode
                 [] OTHER -> IF IsSetToSomething("RENDER") \/ IsSetToSomething("PORT")
                             THEN "http" ELSE "stdio"
        /\ server.resolved_http_transport =
               CASE settings.http_transport = "sse" -> "sse"
                 [] settings.http_transport = "streamable" -> "streamable"
                 [] OTHER -> "sse"

\* On Render with stdio configured and an unknown HTTP transport: http, sse.
C26_Witness ==
    /\ server.at = "resolved"
    /\ environ.RENDER = [tag |-> "str", text |-> <<"true">>]
    /\ environ.PORT.tag = "None"
    /\ settings.transport_mode = "stdio"
    /\ settings.http_transport = "unknown"
    /\ server.resolved_mode = "http"
    /\ server.resolved_http_transport = "sse"

====
